---------------------------- MODULE Spec2Model ----------------------------
(***************************************************************************)
(* A model of the bytecode pipeline of rlox (crate rlox-bytecode): the     *)
(* scanner, the single-pass Pratt compiler, the chunk, the stack VM with   *)
(* its interned strings, globals and intrusive object list, and the two    *)
(* drivers of main.rs (repl and run_file).                                 *)
(***************************************************************************)
EXTENDS Integers, Sequences, FiniteSets, TLC

(***************************************************************************)
(* Characters.  A source text is a TLA+ string; a character is a string of *)
(* length one and "no character" (Option::None) is the empty string.       *)
(***************************************************************************)
NoChar == ""

CharAt(str, i) == IF i >= 1 /\ i <= Len(str) THEN SubSeq(str, i, i) ELSE NoChar

Digits == {"0", "1", "2", "3", "4", "5", "6", "7", "8", "9"}

Alphabetic ==
    {"a", "b", "c", "d", "e", "f", "g", "h", "i", "j", "k", "l", "m",
     "n", "o", "p", "q", "r", "s", "t", "u", "v", "w", "x", "y", "z",
     "A", "B", "C", "D", "E", "F", "G", "H", "I", "J", "K", "L", "M",
     "N", "O", "P", "Q", "R", "S", "T", "U", "V", "W", "X", "Y", "Z"}

is_ascii_digit(c) == c \in Digits

is_ascii_alphabetic(c) == c \in Alphabetic

is_ascii_alphanumeric(c) == c \in Alphabetic \cup Digits

(***************************************************************************)
(* Scanner (scanner.rs).  The MultiPeek iterator over the characters is    *)
(* the pair (pos, pk): pos characters have been consumed by next() and the *)
(* peek cursor stands pk characters further.  start is a byte offset.      *)
(***************************************************************************)
Token_new(ty, lexeme, line) == [ty |-> ty, lexeme |-> lexeme, line |-> line]

Scanner_new(source) ==
    [source |-> source, start |-> 0, pos |-> 0, pk |-> 0, line |-> 1]

\* MultiPeek::peek: the character under the peek cursor, which then moves on
\* (it stays where it is at the end of the input).
Scanner_peek(s) == CharAt(s.source, s.pos + s.pk + 1)

AfterPeek(s) ==
    IF s.pos + s.pk < Len(s.source) THEN [s EXCEPT !.pk = @ + 1] ELSE s

reset_peek(s) == [s EXCEPT !.pk = 0]

\* MultiPeek::next: the next unconsumed character; the peek cursor is reset.
Scanner_advance_char(s) == CharAt(s.source, s.pos + 1)

Scanner_advance(s) ==
    IF s.pos < Len(s.source) THEN [s EXCEPT !.pos = @ + 1, !.pk = 0]
                             ELSE [s EXCEPT !.pk = 0]

\* Scanner::offset: byte offset of the peeked character, or the source length.
Scanner_offset(s) ==
    IF s.pos + s.pk < Len(s.source) THEN s.pos + s.pk ELSE Len(s.source)

\* Each scanning routine returns the pair [tok, s]: the token and the scanner
\* after the call.
make_token(s, ty) ==
    LET offset == Scanner_offset(s)
        lexeme == SubSeq(s.source, s.start + 1, offset)
    IN  [tok |-> Token_new(ty, lexeme, s.line),
         s   |-> [reset_peek(s) EXCEPT !.start = offset]]

error_token(s, message) == [tok |-> Token_new("Error", message, s.line), s |-> s]

Scanner_matches(s, expected) ==
    IF Scanner_peek(s) # NoChar /\ Scanner_peek(s) = expected
    THEN [hit |-> TRUE, s |-> Scanner_advance(AfterPeek(s))]
    ELSE [hit |-> FALSE, s |-> reset_peek(AfterPeek(s))]

RECURSIVE skip_whitespace(_)
RECURSIVE skip_comment(_)
skip_comment(s) ==
    LET s1 == Scanner_advance(s)
        c  == Scanner_peek(s1)
    IN  IF c = "\n" \/ c = NoChar
        THEN skip_whitespace(reset_peek(AfterPeek(s1)))
        ELSE skip_comment(AfterPeek(s1))

skip_whitespace(s) ==
    LET c  == Scanner_peek(s)
        s1 == AfterPeek(s)
    IN  CASE c \in {" ", "\r", "\t"} -> skip_whitespace(Scanner_advance(s1))
          [] c = "\n" ->
                skip_whitespace(Scanner_advance([s1 EXCEPT !.line = @ + 1]))
          [] c = "/" ->
                IF Scanner_peek(s1) = "/"
                THEN skip_comment(AfterPeek(s1))
                ELSE reset_peek(AfterPeek(s1))
          [] OTHER -> reset_peek(s1)

RECURSIVE Scanner_string(_)
Scanner_string(s) ==
    LET c == Scanner_peek(s)
    IN  IF c # "\"" /\ c # NoChar
        THEN LET s1 == Scanner_advance(AfterPeek(s))
             IN  Scanner_string(IF Scanner_advance_char(s) = "\n"
                                THEN [s1 EXCEPT !.line = @ + 1] ELSE s1)
        ELSE LET s1 == AfterPeek(s)
             IN  IF Scanner_advance_char(s1) # NoChar
                 THEN make_token(Scanner_advance(s1), "String")
                 ELSE error_token(Scanner_advance(s1), "Unterminated string.")

peek_is_digit(s) == is_ascii_digit(Scanner_peek(s))

\* while self.peek_is_digit() { self.advance(); }  -- the peek that ends the
\* loop leaves the peek cursor one character further.
RECURSIVE skip_digits(_)
skip_digits(s) ==
    IF peek_is_digit(s) THEN skip_digits(Scanner_advance(AfterPeek(s)))
                        ELSE AfterPeek(s)

Scanner_number(s) ==
    LET s1 == skip_digits(s)
        s2 == AfterPeek(s1)
        s3 == IF Scanner_peek(s1) = "."
              THEN IF peek_is_digit(s2)
                   THEN skip_digits(Scanner_advance(AfterPeek(s2)))
                   ELSE AfterPeek(s2)
              ELSE s2
    IN  make_token(reset_peek(s3), "Number")

check_keyword(s, start, rest, ty) ==
    IF SubSeq(s.source, s.start + start + 1, Scanner_offset(s)) = rest
    THEN ty ELSE "Identifier"

identifier_type(s) ==
    LET b0 == CharAt(s.source, s.start + 1)
        b1 == CharAt(s.source, s.start + 2)
        long == Scanner_offset(s) - s.start > 1
    IN  CASE b0 = "a" -> check_keyword(s, 1, "nd", "And")
          [] b0 = "c" -> check_keyword(s, 1, "lass", "Class")
          [] b0 = "e" -> check_keyword(s, 1, "lse", "Else")
          [] b0 = "f" /\ long /\ b1 = "a" -> check_keyword(s, 2, "lse", "False")
          [] b0 = "f" /\ long /\ b1 = "o" -> check_keyword(s, 2, "r", "For")
          [] b0 = "f" /\ long /\ b1 = "u" -> check_keyword(s, 2, "n", "Fun")
          [] b0 = "i" -> check_keyword(s, 1, "f", "If")
          [] b0 = "n" -> check_keyword(s, 1, "il", "Nil")
          [] b0 = "o" -> check_keyword(s, 1, "r", "Or")
          [] b0 = "p" -> check_keyword(s, 1, "rint", "Print")
          [] b0 = "r" -> check_keyword(s, 1, "eturn", "Return")
          [] b0 = "s" -> check_keyword(s, 1, "uper", "Super")
          [] b0 = "t" /\ long /\ b1 = "h" -> check_keyword(s, 2, "is", "This")
          [] b0 = "t" /\ long /\ b1 = "r" -> check_keyword(s, 2, "ue", "True")
          [] b0 = "v" -> check_keyword(s, 1, "ar", "Var")
          [] b0 = "w" -> check_keyword(s, 1, "hile", "While")
          [] OTHER -> "Identifier"

RECURSIVE skip_alphanumeric(_)
skip_alphanumeric(s) ==
    IF is_ascii_alphanumeric(Scanner_peek(s))
    THEN skip_alphanumeric(Scanner_advance(AfterPeek(s)))
    ELSE AfterPeek(s)

Scanner_identifier(s) ==
    LET s1 == reset_peek(skip_alphanumeric(s))
    IN  make_token(s1, identifier_type(s1))

two_char(s, ty2, ty1) ==
    LET m == Scanner_matches(s, "=")
    IN  make_token(m.s, IF m.hit THEN ty2 ELSE ty1)

\* The match on the character c that advance() returned, s the scanner after it.
scan_char(c, s) ==
         CASE c = NoChar -> make_token(s, "Eof")
          [] is_ascii_alphabetic(c) -> Scanner_identifier(s)
          [] is_ascii_digit(c) -> Scanner_number(s)
          [] c = "(" -> make_token(s, "LeftParen")
          [] c = ")" -> make_token(s, "RightParen")
          [] c = "{" -> make_token(s, "LeftBrace")
          [] c = "}" -> make_token(s, "RightBrace")
          [] c = ";" -> make_token(s, "Semicolon")
          [] c = "," -> make_token(s, "Comma")
          [] c = "." -> make_token(s, "Dot")
          [] c = "-" -> make_token(s, "Minus")
          [] c = "+" -> make_token(s, "Plus")
          [] c = "/" -> make_token(s, "Slash")
          [] c = "*" -> make_token(s, "Star")
          [] c = "!" -> two_char(s, "BangEqual", "Bang")
          [] c = "=" -> two_char(s, "EqualEqual", "Equal")
          [] c = "<" -> two_char(s, "LessEqual", "Less")
          [] c = ">" -> two_char(s, "GreaterEqual", "Greater")
          [] c = "\"" -> Scanner_string(s)
          [] OTHER -> error_token(s, "Unexpected character.")

\* self.start = self.iter.offset() after skip_whitespace, then the match.
scan_start(s) ==
    scan_char(Scanner_advance_char(s), Scanner_advance(s))

scan_from(sw) == scan_start([reset_peek(sw) EXCEPT !.start = Scanner_offset(sw)])

\* Seeded fault: the character that starts the token is looked at and not
\* consumed.
scan_token_stuck(s) ==
    LET sw == skip_whitespace(s)
        s1 == [reset_peek(sw) EXCEPT !.start = Scanner_offset(sw)]
    IN  scan_char(Scanner_advance_char(s1), s1)

scan_token(s) == scan_from(skip_whitespace(s))

(***************************************************************************)
(* Hashing (table.rs, value/string.rs).  A 32-bit hash is the pair of its  *)
(* 16-bit halves <<hi, lo>>, so that the wrapping multiplication stays     *)
(* within the integers the checker computes with.                          *)
(***************************************************************************)
\* The ASCII characters 32..95 and 97..126, in order.
PrintableLow == " !\"#$%&'()*+,-./0123456789:;<=>?@ABCDEFGHIJKLMNOPQRSTUVWXYZ[\\]^_"

PrintableHigh == "abcdefghijklmnopqrstuvwxyz{|}~"

IndexIn(str, c) == CHOOSE i \in 1..Len(str) : CharAt(str, i) = c

\* The byte of an ASCII character.
Ord(c) ==
    CASE c = "\n" -> 10
      [] c = "\t" -> 9
      [] c = "\r" -> 13
      [] \E i \in 1..Len(PrintableLow) : CharAt(PrintableLow, i) = c ->
            31 + IndexIn(PrintableLow, c)
      [] OTHER -> 96 + IndexIn(PrintableHigh, c)

RECURSIVE Xor(_, _, _)
Xor(a, b, bits) ==
    IF bits = 0 THEN 0
    ELSE (((a % 2) + (b % 2)) % 2) + 2 * Xor(a \div 2, b \div 2, bits - 1)

\* FNV1aHasher::default: 2166136261 = 0x811C9DC5.
FNV1aHasher_default == <<33052, 40389>>

\* One round of FNV1aHasher::write: hash ^= byte; hash = hash.wrapping_mul(
\* 16777619), with 16777619 = 0x0100_0193 = 256 * 2^16 + 403.
FNV1a_write_byte(h, byte) ==
    LET lo == (h[2] - (h[2] % 256)) + Xor(h[2] % 256, byte, 8)
        p  == lo * 403
    IN  <<((h[1] * 403) + (lo * 256) + (p \div 65536)) % 65536, p % 65536>>

RECURSIVE FNV1a_write(_, _, _)
FNV1a_write(h, str, i) ==
    IF i > Len(str) THEN h
    ELSE FNV1a_write(FNV1a_write_byte(h, Ord(CharAt(str, i))), str, i + 1)

\* <str as Hash>::hash writes the bytes and then the byte 0xff; finish() is
\* truncated to u32.
str_hash(str) == FNV1a_write_byte(FNV1a_write(FNV1aHasher_default, str, 1), 255)

\* HashedString::from(String)
HashedString_from(inner) == [hash |-> str_hash(inner), inner |-> inner]

\* impl PartialEq<str> for HashedString
HashedString_eq_str(hs, other) == hs.hash = str_hash(other) /\ hs.inner = other

(***************************************************************************)
(* Values (value/mod.rs).  Every value is a record [k, v, d]: k the        *)
(* variant; for Double the number is the fraction v/d in lowest terms with *)
(* d > 0 (d = 0: v = 1 is +inf, v = -1 is -inf, v = 0 is NaN); for Bool    *)
(* v is 0 or 1; for String v is the handle (the index of the heap cell).   *)
(***************************************************************************)
NilValue == [k |-> "Nil", v |-> 0, d |-> 1]

BoolValue(b) == [k |-> "Bool", v |-> IF b THEN 1 ELSE 0, d |-> 1]

StringValue(obj) == [k |-> "String", v |-> obj, d |-> 1]

Abs(n) == IF n < 0 THEN -n ELSE n

RECURSIVE Gcd(_, _)
Gcd(a, b) == IF b = 0 THEN a ELSE Gcd(b, a % b)

\* The Double n/d, normalised.
DoubleValue(n, d) ==
    IF d = 0 THEN [k |-> "Double", v |-> IF n > 0 THEN 1 ELSE IF n < 0 THEN -1 ELSE 0, d |-> 0]
    ELSE LET g  == Gcd(Abs(n), Abs(d))
             sg == IF d < 0 THEN -1 ELSE 1
         IN  [k |-> "Double", v |-> sg * (n \div g), d |-> sg * (d \div g)]

is_double(val) == val.k = "Double"

is_string(val) == val.k = "String"

\* Seeded fault: the number 0 is falsy as well.
is_truthy_zero(val) ==
    CASE val.k = "Bool" -> val.v = 1
      [] val.k = "Nil" -> FALSE
      [] val.k = "Double" -> val.v # 0
      [] OTHER -> TRUE

is_truthy(val) ==
    CASE val.k = "Bool" -> val.v = 1
      [] val.k = "Nil" -> FALSE
      [] OTHER -> TRUE

IsNaN(val) == val.k = "Double" /\ val.d = 0 /\ val.v = 0

(***************************************************************************)
(* Strings and the object list of the VM (vm.rs, value/object.rs).  The    *)
(* heap is the sequence of all cells ever allocated; a handle is the index *)
(* of its cell, None is 0.  A Table is a function from handles to values.  *)
(***************************************************************************)
None == 0

\* A cell is Inner { next, data }; frees counts how often the cell's box was
\* released (Box::from_raw dropped).
Object_new(data) == [next |-> None, data |-> data, frees |-> 0]

\* Seeded fault: the new cell is not linked in front of the list.
Object_keep_next(cell, obj) == cell

Object_set_next(cell, obj) == [cell EXCEPT !.next = obj]

\* impl PartialEq for Object<T>: the cells' data are compared.
Object_eq(heap, a, b) == heap[a].data = heap[b].data

Table_get(heap, table, key) ==
    LET hits == {k \in DOMAIN table : Object_eq(heap, k, key)}
    IN  IF hits = {} THEN None ELSE CHOOSE k \in hits : TRUE

Table_insert(heap, table, key, value) ==
    LET k == Table_get(heap, table, key)
    IN  IF k # None THEN [table EXCEPT ![k] = value]
        ELSE [x \in DOMAIN table \cup {key} |->
                 IF x = key THEN value ELSE table[x]]

\* Seeded fault: a cell is made for every request, interned or not.
allocate_string_fresh(vm, data) ==
    LET obj  == Len(vm.heap) + 1
        cell == Object_set_next(Object_new(HashedString_from(data)), vm.object)
        heap == Append(vm.heap, cell)
    IN  [obj |-> obj,
         vm  |-> [object  |-> obj,
                  heap    |-> heap,
                  strings |-> Table_insert(heap, vm.strings, obj, 0)]]

\* VM::allocate_string on the record vm = [object, heap, strings]; returns
\* the handle and the VM after the call.
allocate_string(vm, data) ==
    LET found == {obj \in DOMAIN vm.strings :
                     HashedString_eq_str(vm.heap[obj].data, data)}
    IN  IF found # {}
        THEN [obj |-> CHOOSE obj \in found : TRUE, vm |-> vm]
        ELSE LET obj  == Len(vm.heap) + 1
                 cell == Object_set_next(Object_new(HashedString_from(data)),
                                         vm.object)
                 heap == Append(vm.heap, cell)
             IN  [obj |-> obj,
                  vm  |-> [object  |-> obj,
                           heap    |-> heap,
                           strings |-> Table_insert(heap, vm.strings, obj, 0)]]

(***************************************************************************)
(* Chunk (chunk.rs).  Code bytes are numbers 0..255; Rust offsets count    *)
(* from 0, so the byte at offset i is code[i + 1].                         *)
(***************************************************************************)
OpcodeNames ==
    <<"Constant", "Nil", "True", "False", "Pop", "GetLocal", "GetGlobal",
      "DefineGlobal", "SetLocal", "SetGlobal", "Equal", "Greater", "Less",
      "Add", "Subtract", "Multiply", "Divide", "Not", "Negate", "Print",
      "Jump", "JumpIfFalse", "Loop", "Return">>

\* `Opcode::X as u8`
Opcode(name) == (CHOOSE i \in 1..Len(OpcodeNames) : OpcodeNames[i] = name) - 1

\* Opcode::try_from(byte); "Err" stands for Err(()).
Opcode_try_from(byte) ==
    IF byte < Len(OpcodeNames) THEN OpcodeNames[byte + 1] ELSE "Err"

Chunk_default == [code |-> <<>>, lines |-> <<>>, constants |-> <<>>]

\* Seeded fault: the line of the byte is not recorded.
Chunk_write_unlined(chunk, byte, line) ==
    [chunk EXCEPT !.code = Append(@, byte)]

Chunk_write(chunk, byte, line) ==
    [chunk EXCEPT !.code = Append(@, byte), !.lines = Append(@, line)]

\* Chunk::add_constant returns the index of the added value.
Chunk_add_constant(chunk, value) ==
    [index |-> Len(chunk.constants),
     chunk |-> [chunk EXCEPT !.constants = Append(@, value)]]

(***************************************************************************)
(* Parser (compiler/parser.rs), as part of the Compilation record c.  The  *)
(* token slots start uninitialised (MaybeUninit::uninit).                  *)
(***************************************************************************)
U8_MAX == 255

U16_MAX == 65535

UninitToken == [ty |-> "Uninit", lexeme |-> "", line |-> 0]

Diagnostic(token, message) ==
    [ty |-> token.ty, lexeme |-> token.lexeme, line |-> token.line,
     message |-> message]

\* Seeded fault: an error is reported in panic mode too.
error_at_unsuppressed(c, token, message) ==
    LET c1 == IF token.ty = "Uninit" THEN [c EXCEPT !.uninit_read = TRUE] ELSE c
    IN  [c1 EXCEPT !.panic_mode = TRUE,
                   !.diag = Append(@, Diagnostic(token, message)),
                   !.had_error = TRUE]

\* Parser::error_at.  Reading a slot that holds no token yet is recorded in
\* uninit_read; what is printed for it is decided where the diagnostics are
\* written out.
error_at(c, token, message) ==
    LET c1 == IF token.ty = "Uninit" THEN [c EXCEPT !.uninit_read = TRUE] ELSE c
    IN  IF c.panic THEN c
        ELSE IF c1.panic_mode THEN c1
        ELSE [c1 EXCEPT !.panic_mode = TRUE,
                        !.diag = Append(@, Diagnostic(token, message)),
                        !.had_error = TRUE]

error_at_current(c, message) == error_at(c, c.current, message)

Parser_error(c, message) == error_at(c, c.previous, message)

\* The text error_at writes to standard error for one diagnostic.
format_diagnostic(d) ==
    "[line " \o ToString(d.line) \o "] Error"
    \o (IF d.ty = "Eof" THEN " at end"
        ELSE IF d.ty = "Error" THEN ""
        ELSE "at '" \o d.lexeme \o "'")
    \o ": " \o d.message

\* The routines of the parser and the compiler reach each other through
\* call(routine, c, arg), the one recursive operator that ties the recursive
\* descent together; it is defined after the last of them.  Nothing runs
\* once a panic unwinds (c.panic).
RECURSIVE call(_, _, _)

\* One round of the loop of Parser::advance, r the token scanned and the
\* scanner after it.
advance_scanned(c, r) ==
    LET c1 == [c EXCEPT !.scanner = r.s]
    IN  IF r.tok.ty # "Error"
        THEN [c1 EXCEPT !.previous = c.current, !.current = r.tok]
        ELSE call("Parser_advance", error_at_current(c1, r.tok.lexeme), 0)

Parser_advance(c) == advance_scanned(c, scan_token(c.scanner))

\* Parser::new primes the parser with one advance.
Parser_new(c, source) ==
    call("Parser_advance", [c EXCEPT !.scanner = Scanner_new(source),
                               !.current = UninitToken,
                               !.previous = UninitToken,
                               !.had_error = FALSE,
                               !.panic_mode = FALSE], 0)

\* The fields of a Parser before Parser::new has filled them in, with what
\* the model records next to them (diag, uninit_read, panic).
Parser_fields ==
    [scanner |-> Scanner_new(""),
     current |-> UninitToken, previous |-> UninitToken,
     had_error |-> FALSE, panic_mode |-> FALSE,
     diag |-> <<>>, uninit_read |-> FALSE, panic |-> FALSE]

Parser_check(c, ty) == c.current.ty = ty

consume(c, ty, message) ==
    IF c.current.ty # ty THEN error_at_current(c, message)
                         ELSE call("Parser_advance", c, 0)

Parser_matches(c, ty) ==
    IF ~Parser_check(c, ty) THEN [hit |-> FALSE, c |-> c]
                            ELSE [hit |-> TRUE, c |-> call("Parser_advance", c, 0)]

SyncTokens ==
    {"Class", "Fun", "Var", "For", "If", "While", "Print", "Return"}

\* Seeded fault: recovery skips one token and stops there.
synchronize_loop_once(c) ==
    IF c.current.ty = "Eof" THEN c ELSE call("Parser_advance", c, 0)

RECURSIVE synchronize_loop(_)
synchronize_loop(c) ==
    IF c.current.ty = "Eof" THEN c
    ELSE IF c.previous.ty = "Semicolon" THEN c
    ELSE IF c.current.ty \in SyncTokens THEN c
    ELSE synchronize_loop(call("Parser_advance", c, 0))

\* Seeded fault: recovery also forgets that an error was reported.
synchronize_forgiving(c) ==
    synchronize_loop([c EXCEPT !.panic_mode = FALSE, !.had_error = FALSE])

synchronize(c) == synchronize_loop([c EXCEPT !.panic_mode = FALSE])

(***************************************************************************)
(* Compilation (compiler/mod.rs).  c = the parser fields, the chunk being  *)
(* compiled (chunk), the Compiler (locals, scope_depth)                    *)
(* and the part of the VM that compiling changes (vm = [object, heap,      *)
(* strings]).  panic records a Rust panic; a local's depth None is -1.     *)
(***************************************************************************)
Compilation_new(vm, source) ==
    Parser_new([scanner |-> Scanner_new(""),
                current |-> UninitToken, previous |-> UninitToken,
                had_error |-> FALSE, panic_mode |-> FALSE,
                diag |-> <<>>, uninit_read |-> FALSE, panic |-> FALSE,
                chunk |-> Chunk_default,
                locals |-> <<>>, scope_depth |-> 0,
                vm |-> vm],
               source)

DepthNone == -1

RECURSIVE emit_bytes(_, _)
emit_bytes(c, bytes) ==
    IF bytes = <<>> THEN c
    ELSE emit_bytes([c EXCEPT !.chunk = Chunk_write(@, Head(bytes),
                                                    c.previous.line)],
                    Tail(bytes))

\* Seeded fault: the index U8_MAX is refused as well.
make_constant_early(c, value) ==
    LET a        == Chunk_add_constant(c.chunk, value)
        constant == a.index
        c1       == [c EXCEPT !.chunk = a.chunk]
    IN  IF constant < U8_MAX
        THEN [byte |-> constant, c |-> c1]
        ELSE [byte |-> 0,
              c |-> Parser_error(c1, "Too many constants in one chunk.")]

\* Seeded fault: the operand is the new length of the table, not the index.
make_constant_length(c, value) ==
    LET a        == Chunk_add_constant(c.chunk, value)
        constant == a.index + 1
        c1       == [c EXCEPT !.chunk = a.chunk]
    IN  IF constant <= U8_MAX
        THEN [byte |-> constant, c |-> c1]
        ELSE [byte |-> 0,
              c |-> Parser_error(c1, "Too many constants in one chunk.")]

\* Compilation::make_constant returns the operand byte and the compilation.
make_constant(c, value) ==
    LET a        == Chunk_add_constant(c.chunk, value)
        constant == a.index
        c1       == [c EXCEPT !.chunk = a.chunk]
    IN  IF constant <= U8_MAX
        THEN [byte |-> constant, c |-> c1]
        ELSE [byte |-> 0,
              c |-> Parser_error(c1, "Too many constants in one chunk.")]

emit_constant(c, value) ==
    LET m == make_constant(c, value)
    IN  emit_bytes(m.c, <<Opcode("Constant"), m.byte>>)

\* Compilation::emit_jump returns the offset of the operand and the compilation.
emit_jump(c, instruction) ==
    LET c1 == emit_bytes(c, <<Opcode(instruction), 255, 255>>)
    IN  [offset |-> Len(c1.chunk.code) - 2, c |-> c1]

\* Seeded fault: the distance U16_MAX is refused as well.
patch_jump_strict(c, offset) ==
    LET jump == Len(c.chunk.code) - offset - 2
        c1   == IF jump >= U16_MAX
                THEN Parser_error(c, "Too much code to jump over.") ELSE c
    IN  [c1 EXCEPT !.chunk.code[offset + 1] = (jump \div 256) % 256,
                   !.chunk.code[offset + 2] = jump % 256]

\* Seeded fault: the distance counts the two operand bytes as well.
patch_jump_long(c, offset) ==
    LET jump == Len(c.chunk.code) - offset
        c1   == IF jump > U16_MAX
                THEN Parser_error(c, "Too much code to jump over.") ELSE c
    IN  [c1 EXCEPT !.chunk.code[offset + 1] = (jump \div 256) % 256,
                   !.chunk.code[offset + 2] = jump % 256]

\* Seeded fault: the low byte of the distance is written first.
patch_jump_little_endian(c, offset) ==
    LET jump == Len(c.chunk.code) - offset - 2
        c1   == IF jump > U16_MAX
                THEN Parser_error(c, "Too much code to jump over.") ELSE c
    IN  [c1 EXCEPT !.chunk.code[offset + 1] = jump % 256,
                   !.chunk.code[offset + 2] = (jump \div 256) % 256]

patch_jump(c, offset) ==
    LET jump == Len(c.chunk.code) - offset - 2
        c1   == IF jump > U16_MAX
                THEN Parser_error(c, "Too much code to jump over.") ELSE c
    IN  [c1 EXCEPT !.chunk.code[offset + 1] = (jump \div 256) % 256,
                   !.chunk.code[offset + 2] = jump % 256]

emit_loop(c, loop_start) ==
    LET c1     == emit_bytes(c, <<Opcode("Loop")>>)
        offset == Len(c1.chunk.code) - loop_start + 2
        c2     == IF offset > U16_MAX
                  THEN Parser_error(c1, "Loop body too large.") ELSE c1
    IN  emit_bytes(c2, <<(offset % 65536) \div 256, offset % 256>>)

\* The VM's allocate_string, called through the compilation's &mut VM.
\* a = what allocate_string returned: the handle and the VM.
allocated(c, a) == [obj |-> a.obj, c |-> [c EXCEPT !.vm = a.vm]]

Compilation_allocate_string(c, data) == allocated(c, allocate_string(c.vm, data))

\* self.make_constant(obj), a = [obj, c].
make_constant_obj(a) == make_constant(a.c, StringValue(a.obj))

identifier_constant(c, name) ==
    make_constant_obj(Compilation_allocate_string(c, name))

add_local(c, name) ==
    IF Len(c.locals) = U8_MAX
    THEN Parser_error(c, "Too many local variables in function.")
    ELSE [c EXCEPT !.locals = Append(@, [name |-> name, depth |-> DepthNone])]

\* Seeded fault: the scan does not stop at the locals of enclosing scopes.
declare_scan_all(c, name, i) ==
    IF \E j \in 1..i : name = c.locals[j].name
    THEN Parser_error(c, "Already a variable with this name in this scope.")
    ELSE c

\* The reverse scan of declare_variable, from local i downwards: it breaks at
\* the last local of an enclosing scope, and every local after that one with
\* the name is an error (reported once, being in panic mode afterwards).
declare_scan(c, name, i) ==
    LET outer == {j \in 1..i : /\ c.locals[j].depth # DepthNone
                               /\ c.locals[j].depth < c.scope_depth}
        break == IF outer = {} THEN 0
                 ELSE CHOOSE j \in outer : \A k \in outer : k <= j
    IN  IF \E j \in (break + 1)..i : name = c.locals[j].name
        THEN Parser_error(c, "Already a variable with this name in this scope.")
        ELSE c

declare_variable(c) ==
    IF c.scope_depth = 0 THEN c
    ELSE LET name == c.previous.lexeme
         IN  add_local(declare_scan(c, name, Len(c.locals)), name)

\* Compilation::parse_variable returns the operand byte and the compilation.
parse_variable(c, error_message) ==
    LET c1 == declare_variable(consume(c, "Identifier", error_message))
    IN  IF c1.scope_depth > 0 THEN [byte |-> 0, c |-> c1]
        ELSE identifier_constant(c1, c1.previous.lexeme)

mark_initialized(c) ==
    IF c.locals = <<>> THEN [c EXCEPT !.panic = TRUE]
    ELSE [c EXCEPT !.locals[Len(c.locals)].depth = c.scope_depth]

define_variable(c, global) ==
    IF c.scope_depth > 0 THEN mark_initialized(c)
    ELSE emit_bytes(c, <<Opcode("DefineGlobal"), global>>)

\* Seeded fault: a local that is not initialized yet is passed over.
RECURSIVE resolve_scan_initialized(_, _, _)
resolve_scan_initialized(c, name, i) ==
    IF i = 0 THEN [slot |-> -1, c |-> c]
    ELSE IF name = c.locals[i].name /\ c.locals[i].depth # DepthNone
         THEN [slot |-> (i - 1) % 256, c |-> c]
         ELSE resolve_scan_initialized(c, name, i - 1)

\* Compilation::resolve_local returns the slot (-1 for None) and the
\* compilation.
RECURSIVE resolve_scan(_, _, _)
resolve_scan(c, name, i) ==
    IF i = 0 THEN [slot |-> -1, c |-> c]
    ELSE IF name = c.locals[i].name
         THEN [slot |-> (i - 1) % 256,
               c |-> IF c.locals[i].depth = DepthNone
                     THEN Parser_error(c, "Can't read local variable in its own initializer.")
                     ELSE c]
         ELSE resolve_scan(c, name, i - 1)

resolve_local(c, name) == resolve_scan(c, name, Len(c.locals))

begin_scope(c) == [c EXCEPT !.scope_depth = @ + 1]

\* Seeded fault: the locals are discarded and no Pop is emitted for them.
end_scope_loop_unpopped(c) ==
    LET n     == Len(c.locals)
        ends  == {j \in 0..n :
                     \A k \in (j + 1)..n : c.locals[k].depth > c.scope_depth}
        keep  == CHOOSE j \in ends : \A k \in ends : j <= k
    IN  [c EXCEPT !.locals = SubSeq(@, 1, keep)]

end_scope_loop(c) ==
    LET n     == Len(c.locals)
        ends  == {j \in 0..n :
                     \A k \in (j + 1)..n : c.locals[k].depth > c.scope_depth}
        keep  == CHOOSE j \in ends : \A k \in ends : j <= k
        bytes == [i \in 1..(n - keep) |-> Opcode("Pop")]
    IN  [c EXCEPT
            !.chunk.code = @ \o bytes,
            !.chunk.lines = @ \o [i \in 1..(n - keep) |-> c.previous.line],
            !.locals = SubSeq(@, 1, keep)]

\* Seeded fault: the locals of the scope that ends are kept.
end_scope_keep(c) == [c EXCEPT !.scope_depth = @ - 1]

end_scope(c) == end_scope_loop([c EXCEPT !.scope_depth = @ - 1])

(***************************************************************************)
(* The Pratt parser.  Precedences are numbered in the order of the enum.   *)
(***************************************************************************)
Precedence_None == 0
Precedence_Assignment == 1
Precedence_Or == 2
Precedence_And == 3
Precedence_Equality == 4
Precedence_Comparison == 5
Precedence_Term == 6
Precedence_Factor == 7
Precedence_Unary == 8
Precedence_Call == 9
Precedence_Primary == 10

Precedence_successor(prec) ==
    IF prec = Precedence_Primary THEN Precedence_Primary ELSE prec + 1

ParseRule_new(prefix, infix, precedence) ==
    [prefix |-> prefix, infix |-> infix, precedence |-> precedence]

\* get_rule; "none" stands for None in the prefix and infix columns.
get_rule(operator) ==
    CASE operator = "LeftParen" -> ParseRule_new("grouping", "none", Precedence_None)
      [] operator = "Minus" -> ParseRule_new("unary", "binary", Precedence_Term)
      [] operator = "Plus" -> ParseRule_new("none", "binary", Precedence_Term)
      [] operator = "Slash" -> ParseRule_new("none", "binary", Precedence_Factor)
      [] operator = "Star" -> ParseRule_new("none", "binary", Precedence_Factor)
      [] operator = "Bang" -> ParseRule_new("unary", "none", Precedence_None)
      [] operator = "BangEqual" -> ParseRule_new("none", "binary", Precedence_Equality)
      [] operator = "EqualEqual" -> ParseRule_new("none", "binary", Precedence_Equality)
      [] operator = "Greater" -> ParseRule_new("none", "binary", Precedence_Comparison)
      [] operator = "GreaterEqual" -> ParseRule_new("none", "binary", Precedence_Comparison)
      [] operator = "Less" -> ParseRule_new("none", "binary", Precedence_Comparison)
      [] operator = "LessEqual" -> ParseRule_new("none", "binary", Precedence_Comparison)
      [] operator = "Identifier" -> ParseRule_new("variable", "none", Precedence_None)
      [] operator = "String" -> ParseRule_new("string", "none", Precedence_None)
      [] operator = "Number" -> ParseRule_new("number", "none", Precedence_None)
      [] operator = "And" -> ParseRule_new("none", "and", Precedence_And)
      [] operator = "False" -> ParseRule_new("literal", "none", Precedence_None)
      [] operator = "Nil" -> ParseRule_new("literal", "none", Precedence_None)
      [] operator = "Or" -> ParseRule_new("none", "or", Precedence_Or)
      [] operator = "True" -> ParseRule_new("literal", "none", Precedence_None)
      [] OTHER -> ParseRule_new("none", "none", Precedence_None)

RECURSIVE digits_value(_, _, _)
digits_value(str, i, acc) ==
    IF i > Len(str) THEN acc
    ELSE digits_value(str, i + 1,
                      10 * acc + (CHOOSE n \in 0..9 : CharAt("0123456789", n + 1) = CharAt(str, i)))

AllDigits(str) == \A i \in 1..Len(str) : is_ascii_digit(CharAt(str, i))

\* str::parse::<f64> on the lexemes the scanner can deliver for a Number:
\* digits, possibly followed by one more character.  The result is the
\* integer, or -1 for Err (anything but digits with an optional final '.').
parse_f64(lexeme) ==
    LET n    == Len(lexeme)
        body == IF n > 1 /\ CharAt(lexeme, n) = "." THEN SubSeq(lexeme, 1, n - 1)
                ELSE lexeme
    IN  IF body # "" /\ AllDigits(body) THEN digits_value(body, 1, 0) ELSE -1

expression(c) == call("parse_precedence", c, Precedence_Assignment)

\* Seeded fault: the right operand is parsed at the precedence of the
\* operator, not at the next one.
binary_right(c, can_assign) ==
    LET operator == c.previous.ty
        rule     == get_rule(operator)
        c1       == call("parse_precedence", c,
                         rule.precedence)
    IN  CASE operator = "BangEqual" -> emit_bytes(c1, <<Opcode("Equal"), Opcode("Not")>>)
          [] operator = "EqualEqual" -> emit_bytes(c1, <<Opcode("Equal")>>)
          [] operator = "Greater" -> emit_bytes(c1, <<Opcode("Greater")>>)
          [] operator = "GreaterEqual" -> emit_bytes(c1, <<Opcode("Less"), Opcode("Not")>>)
          [] operator = "Less" -> emit_bytes(c1, <<Opcode("Less")>>)
          [] operator = "LessEqual" -> emit_bytes(c1, <<Opcode("Greater"), Opcode("Not")>>)
          [] operator = "Plus" -> emit_bytes(c1, <<Opcode("Add")>>)
          [] operator = "Minus" -> emit_bytes(c1, <<Opcode("Subtract")>>)
          [] operator = "Star" -> emit_bytes(c1, <<Opcode("Multiply")>>)
          [] operator = "Slash" -> emit_bytes(c1, <<Opcode("Divide")>>)
          [] OTHER -> [c1 EXCEPT !.panic = TRUE]

binary(c, can_assign) ==
    LET operator == c.previous.ty
        rule     == get_rule(operator)
        c1       == call("parse_precedence", c,
                         Precedence_successor(rule.precedence))
    IN  CASE operator = "BangEqual" -> emit_bytes(c1, <<Opcode("Equal"), Opcode("Not")>>)
          [] operator = "EqualEqual" -> emit_bytes(c1, <<Opcode("Equal")>>)
          [] operator = "Greater" -> emit_bytes(c1, <<Opcode("Greater")>>)
          [] operator = "GreaterEqual" -> emit_bytes(c1, <<Opcode("Less"), Opcode("Not")>>)
          [] operator = "Less" -> emit_bytes(c1, <<Opcode("Less")>>)
          [] operator = "LessEqual" -> emit_bytes(c1, <<Opcode("Greater"), Opcode("Not")>>)
          [] operator = "Plus" -> emit_bytes(c1, <<Opcode("Add")>>)
          [] operator = "Minus" -> emit_bytes(c1, <<Opcode("Subtract")>>)
          [] operator = "Star" -> emit_bytes(c1, <<Opcode("Multiply")>>)
          [] operator = "Slash" -> emit_bytes(c1, <<Opcode("Divide")>>)
          [] OTHER -> [c1 EXCEPT !.panic = TRUE]

grouping(c, can_assign) ==
    consume(expression(c), "RightParen", "Expect ')' after expression.")

unary(c, can_assign) ==
    LET operator == c.previous.ty
        c1       == call("parse_precedence", c, Precedence_Unary)
    IN  CASE operator = "Minus" -> emit_bytes(c1, <<Opcode("Negate")>>)
          [] operator = "Bang" -> emit_bytes(c1, <<Opcode("Not")>>)
          [] OTHER -> [c1 EXCEPT !.panic = TRUE]

literal(c, can_assign) ==
    CASE c.previous.ty = "Nil" -> emit_bytes(c, <<Opcode("Nil")>>)
      [] c.previous.ty = "True" -> emit_bytes(c, <<Opcode("True")>>)
      [] c.previous.ty = "False" -> emit_bytes(c, <<Opcode("False")>>)
      [] OTHER -> [c EXCEPT !.panic = TRUE]

\* parse::<f64>().unwrap() panics on Err.
number(c, can_assign) ==
    LET value == parse_f64(c.previous.lexeme)
    IN  IF value < 0 THEN [c EXCEPT !.panic = TRUE]
        ELSE emit_constant(c, DoubleValue(value, 1))

\* self.emit_constant(obj), a = [obj, c].
emit_constant_obj(a) == emit_constant(a.c, StringValue(a.obj))

string(c, can_assign) ==
    LET lexeme == c.previous.lexeme
    IN  emit_constant_obj(
            Compilation_allocate_string(c, SubSeq(lexeme, 2, Len(lexeme) - 1)))

\* The second half of named_variable, v = [byte, c] the operand chosen.
variable_access(v, get_op, set_op, can_assign) ==
    LET m == Parser_matches(v.c, "Equal")
    IN  IF can_assign /\ m.hit
        THEN emit_bytes(expression(m.c), <<Opcode(set_op), v.byte>>)
        ELSE emit_bytes(v.c, <<Opcode(get_op), v.byte>>)

named_variable(c, name, can_assign) ==
    LET r == resolve_local(c, name)
    IN  IF r.slot = -1
        THEN variable_access(identifier_constant(r.c, name),
                             "GetGlobal", "SetGlobal", can_assign)
        ELSE variable_access([byte |-> r.slot, c |-> r.c],
                             "GetLocal", "SetLocal", can_assign)

variable(c, can_assign) == named_variable(c, c.previous.lexeme, can_assign)

\* Seeded fault: the left value stays on the stack under the right one.
and_unpopped(c, can_assign) ==
    LET j == emit_jump(c, "JumpIfFalse")
    IN  patch_jump(call("parse_precedence", j.c, Precedence_And), j.offset)

and_(c, can_assign) ==
    LET j  == emit_jump(c, "JumpIfFalse")
        c1 == emit_bytes(j.c, <<Opcode("Pop")>>)
    IN  patch_jump(call("parse_precedence", c1, Precedence_And), j.offset)

or_(c, can_assign) ==
    LET else_jump == emit_jump(c, "JumpIfFalse")
        end_jump  == emit_jump(else_jump.c, "Jump")
        c1 == emit_bytes(patch_jump(end_jump.c, else_jump.offset), <<Opcode("Pop")>>)
    IN  patch_jump(call("parse_precedence", c1, Precedence_Or),
                   end_jump.offset)

prefix_rule(rule, c, can_assign) ==
    CASE rule = "grouping" -> grouping(c, can_assign)
      [] rule = "unary" -> unary(c, can_assign)
      [] rule = "variable" -> variable(c, can_assign)
      [] rule = "string" -> string(c, can_assign)
      [] rule = "number" -> number(c, can_assign)
      [] rule = "literal" -> literal(c, can_assign)

\* `.infix.unwrap()` panics on None.
infix_rule(rule, c, can_assign) ==
    CASE rule = "binary" -> binary(c, can_assign)
      [] rule = "and" -> and_(c, can_assign)
      [] rule = "or" -> or_(c, can_assign)
      [] OTHER -> [c EXCEPT !.panic = TRUE]

\* The while loop of parse_precedence.  A panic ends the compilation.
RECURSIVE infix_loop(_, _, _)
infix_loop(c, prec, can_assign) ==
    IF ~c.panic /\ prec <= get_rule(c.current.ty).precedence
    THEN LET c1 == call("Parser_advance", c, 0)
         IN  infix_loop(infix_rule(get_rule(c1.previous.ty).infix, c1, can_assign),
                        prec, can_assign)
    ELSE c

\* parse_precedence up to its infix loop.
parse_prefix(c, can_assign) ==
    LET c1     == call("Parser_advance", c, 0)
        prefix == get_rule(c1.previous.ty).prefix
    IN  IF prefix = "none" THEN Parser_error(c1, "Expect expression")
        ELSE prefix_rule(prefix, c1, can_assign)

\* The body of the infix loop of parse_precedence.
infix_body(c, can_assign) ==
    LET c1 == call("Parser_advance", c, 0)
    IN  infix_rule(get_rule(c1.previous.ty).infix, c1, can_assign)

parse_precedence(c, prec) ==
    LET c1     == call("Parser_advance", c, 0)
        prefix == get_rule(c1.previous.ty).prefix
        can_assign == prec <= Precedence_Assignment
    IN  IF prefix = "none" THEN Parser_error(c1, "Expect expression")
        ELSE infix_loop(prefix_rule(prefix, c1, can_assign), prec, can_assign)

(***************************************************************************)
(* Declarations and statements.                                            *)
(***************************************************************************)
var_declaration(c) ==
    LET v  == parse_variable(c, "Expect variable name.")
        m  == Parser_matches(v.c, "Equal")
        c1 == IF m.hit THEN expression(m.c)
              ELSE emit_bytes(m.c, <<Opcode("Nil")>>)
        c2 == consume(c1, "Semicolon", "Expect ';' after variable declaration.")
    IN  define_variable(c2, v.byte)

print_statement(c) ==
    emit_bytes(consume(expression(c), "Semicolon", "Expect ';' after value."),
               <<Opcode("Print")>>)

expression_statement(c) ==
    emit_bytes(consume(expression(c), "Semicolon", "Expect ';' after expression."),
               <<Opcode("Pop")>>)

\* if_statement from the end of the then branch on.
if_else(c3, then_jump) ==
    LET else_jump == emit_jump(c3, "Jump")
        c4 == emit_bytes(patch_jump(else_jump.c, then_jump), <<Opcode("Pop")>>)
        m  == Parser_matches(c4, "Else")
        c5 == IF m.hit THEN call("statement", m.c, 0) ELSE m.c
    IN  patch_jump(c5, else_jump.offset)

if_statement(c) ==
    LET c1 == consume(c, "LeftParen", "Expect '(' after 'if'.")
        c2 == consume(expression(c1), "RightParen", "Expect ')' after 'if'.")
        then_jump == emit_jump(c2, "JumpIfFalse")
        c3 == call("statement", emit_bytes(then_jump.c, <<Opcode("Pop")>>), 0)
    IN  if_else(c3, then_jump.offset)

\* while_statement from the end of the body on.
while_exit(c3, loop_start, exit_jump) ==
    LET c4 == emit_loop(c3, loop_start)
    IN  emit_bytes(patch_jump(c4, exit_jump), <<Opcode("Pop")>>)

while_statement(c) ==
    LET loop_start == Len(c.chunk.code)
        c1 == consume(c, "LeftParen", "Expect '(' after 'while'.")
        c2 == consume(expression(c1), "RightParen", "Expect ')' after condition.")
        exit_jump == emit_jump(c2, "JumpIfFalse")
        c3 == call("statement", emit_bytes(exit_jump.c, <<Opcode("Pop")>>), 0)
    IN  while_exit(c3, loop_start, exit_jump.offset)

\* for_statement, clause by clause.  The initializer clause.
for_initializer(c) ==
    LET m1 == Parser_matches(c, "Semicolon")
        m2 == Parser_matches(c, "Var")
    IN  IF m1.hit THEN m1.c
        ELSE IF m2.hit THEN call("var_declaration", m2.c, 0)
        ELSE call("expression_statement", c, 0)

\* The condition clause returns exit_jump (-1 stands for None) and the
\* compilation.
for_condition(c) ==
    LET m == Parser_matches(c, "Semicolon")
        j == emit_jump(consume(expression(c), "Semicolon",
                               "Expect ';' after loop condition."),
                       "JumpIfFalse")
    IN  IF m.hit THEN [exit_jump |-> -1, c |-> m.c]
        ELSE [exit_jump |-> j.offset, c |-> emit_bytes(j.c, <<Opcode("Pop")>>)]

\* The increment clause returns the loop_start it leaves and the compilation.
for_increment(c, loop_start) ==
    LET m == Parser_matches(c, "RightParen")
        body_jump == emit_jump(c, "Jump")
        increment_start == Len(body_jump.c.chunk.code)
        c1 == consume(emit_bytes(expression(body_jump.c), <<Opcode("Pop")>>),
                      "RightParen", "Expect ')' after for clauses.")
    IN  IF m.hit THEN [loop_start |-> loop_start, c |-> m.c]
        ELSE [loop_start |-> increment_start,
              c |-> patch_jump(emit_loop(c1, loop_start), body_jump.offset)]

\* Seeded fault: the condition value is not popped at the exit.
for_body_unpopped(inc, exit_jump) ==
    LET c1 == emit_loop(call("statement", inc.c, 0), inc.loop_start)
    IN  end_scope(IF exit_jump # -1 THEN patch_jump(c1, exit_jump) ELSE c1)

\* The body, the loop back, the exit patch and end_scope.
for_body(inc, exit_jump) ==
    LET c1 == emit_loop(call("statement", inc.c, 0), inc.loop_start)
    IN  end_scope(IF exit_jump # -1
                  THEN emit_bytes(patch_jump(c1, exit_jump), <<Opcode("Pop")>>)
                  ELSE c1)

for_after_condition(cond, loop_start) ==
    for_body(for_increment(cond.c, loop_start), cond.exit_jump)

\* loop_start = the length of the code after the initializer clause.
for_after_initializer(c) ==
    for_after_condition(for_condition(c), Len(c.chunk.code))

for_statement(c) ==
    for_after_initializer(
        for_initializer(consume(begin_scope(c), "LeftParen",
                                "Expect '(' after 'for'.")))

RECURSIVE block_loop(_)
block_loop(c) ==
    IF ~c.panic /\ ~Parser_check(c, "RightBrace") /\ ~Parser_check(c, "Eof")
    THEN block_loop(call("declaration", c, 0))
    ELSE c

block(c) == consume(block_loop(c), "RightBrace", "Expect '}' after block.")

statement(c) ==
    LET mPrint == Parser_matches(c, "Print")
        mIf    == Parser_matches(c, "If")
        mWhile == Parser_matches(c, "While")
        mFor   == Parser_matches(c, "For")
        mBrace == Parser_matches(c, "LeftBrace")
    IN  CASE mPrint.hit -> print_statement(mPrint.c)
          [] mIf.hit -> if_statement(mIf.c)
          [] mWhile.hit -> while_statement(mWhile.c)
          [] mFor.hit -> for_statement(mFor.c)
          [] mBrace.hit -> end_scope(block(begin_scope(mBrace.c)))
          [] OTHER -> expression_statement(c)

declaration(c) ==
    LET m  == Parser_matches(c, "Var")
        c1 == IF m.hit THEN call("var_declaration", m.c, 0)
              ELSE call("statement", m.c, 0)
    IN  IF ~c1.panic /\ c1.panic_mode THEN synchronize(c1) ELSE c1

Compilation_end(c) == emit_bytes(c, <<Opcode("Return")>>)

RECURSIVE execute_loop(_)
execute_loop(c) ==
    LET m == Parser_matches(c, "Eof")
    IN  IF m.hit \/ c.panic THEN m.c
        ELSE execute_loop(call("declaration", m.c, 0))

\* Seeded fault: the flag returned does not look at had_error.
execute_unchecked(c) ==
    LET c1 == consume(Compilation_end(execute_loop(c)), "Eof",
                      "Expect end of expression.")
    IN  [ok |-> TRUE, c |-> c1]

\* Compilation::execute returns the flag and the compilation.
execute(c) ==
    LET c1 == consume(Compilation_end(execute_loop(c)), "Eof",
                      "Expect end of expression.")
    IN  [ok |-> ~c1.had_error, c |-> c1]

(***************************************************************************)
(* Files too long to be written out.  A long file is an opening, count     *)
(* units and the rest of the text, all on line 1:                          *)
(*   "numbers"  1;  1;  ...  rest                                          *)
(*   "locals"   {  var v1;  var v2;  ...  rest                             *)
(*   "if"       if (true) {  nil;  nil;  ...  rest                         *)
(*   "while"    while (true) {  nil;  nil;  ...  rest                      *)
(* The compilation of such a file starts from the state that the compiler  *)
(* is in after the last unit, and goes through the rest.                   *)
(***************************************************************************)
Opening(shape) ==
    CASE shape = "numbers" -> ""
      [] shape = "locals" -> "{"
      [] shape = "if" -> "if (true) {"
      [] shape = "while" -> "while (true) {"

Unit(shape, i) ==
    CASE shape = "numbers" -> "1;"
      [] shape = "locals" -> "var v" \o ToString(i) \o ";"
      [] OTHER -> "nil;"

RECURSIVE Units(_, _, _)
Units(shape, i, count) ==
    IF i > count THEN ""
    ELSE Unit(shape, i) \o Units(shape, i + 1, count)

\* The text of a long file.
LongText(file) ==
    Opening(file.shape) \o Units(file.shape, 1, file.count) \o file.rest

\* The chunk after the opening and count units.
units_chunk(shape, count) ==
    LET constant == Opcode("Constant")
        pop      == Opcode("Pop")
        nil      == Opcode("Nil")
        code ==
            CASE shape = "numbers" ->
                    [i \in 1..(3 * count) |->
                        CASE i % 3 = 1 -> constant
                          [] i % 3 = 2 -> (i - 2) \div 3
                          [] OTHER -> pop]
              [] shape = "locals" -> [i \in 1..count |-> nil]
              [] OTHER ->
                    <<Opcode("True"), Opcode("JumpIfFalse"), 255, 255, pop>>
                    \o [i \in 1..(2 * count) |->
                           IF i % 2 = 1 THEN nil ELSE pop]
    IN  [code |-> code,
         lines |-> [i \in 1..Len(code) |-> 1],
         constants |-> IF shape = "numbers"
                       THEN [i \in 1..count |-> DoubleValue(parse_f64("1"), 1)]
                       ELSE <<>>]

\* The compilation after the opening and count units, about to go through
\* the rest of the text.
units_compiled(vm, file) ==
    LET c == Compilation_new(vm, file.rest)
    IN  [c EXCEPT
            !.previous =
                IF file.count > 0 THEN Token_new("Semicolon", ";", 1)
                ELSE IF file.shape = "numbers" THEN @
                ELSE Token_new("LeftBrace", "{", 1),
            !.chunk = units_chunk(file.shape, file.count),
            !.locals =
                IF file.shape = "locals"
                THEN [i \in 1..file.count |->
                         [name |-> "v" \o ToString(i), depth |-> 1]]
                ELSE <<>>,
            !.scope_depth = IF file.shape = "numbers" THEN 0 ELSE 1]

\* The calls that are open after the units, from the innermost one: the
\* block and end_scope of statement, if_statement or while_statement,
\* declaration, and execute.
compile_rest(c, shape) ==
    LET body == end_scope(block(c))
        c1   == CASE shape = "numbers" -> c
                  [] shape = "locals" -> body
                  [] shape = "if" -> if_else(body, 2)
                  [] shape = "while" -> while_exit(body, 0, 2)
        c2   == IF shape # "numbers" /\ c1.panic_mode
                THEN synchronize(c1) ELSE c1
    IN  execute(c2)

call(routine, c, arg) ==
    IF c.panic THEN c
    ELSE CASE routine = "Parser_advance" -> Parser_advance(c)
           [] routine = "parse_precedence" -> parse_precedence(c, arg)
           [] routine = "var_declaration" -> var_declaration(c)
           [] routine = "expression_statement" -> expression_statement(c)
           [] routine = "statement" -> statement(c)
           [] routine = "declaration" -> declaration(c)
           [] routine = "parse_prefix" -> parse_prefix(c, arg)
           [] routine = "infix_body" -> infix_body(c, arg)
           [] routine = "compile" -> execute(Compilation_new(c.vm, arg))
           [] routine = "compile_long" ->
                 compile_rest(units_compiled(c.vm, arg), arg.shape)

(***************************************************************************)
(* f64 arithmetic on the fractions of the value records.  The sign of a    *)
(* zero is not kept.                                                       *)
(***************************************************************************)
NaN == DoubleValue(0, 0)

Sign(n) == IF n > 0 THEN 1 ELSE IF n < 0 THEN -1 ELSE 0

f64_neg(a) == [a EXCEPT !.v = -a.v]

f64_add(a, b) ==
    CASE IsNaN(a) \/ IsNaN(b) -> NaN
      [] a.d = 0 /\ b.d = 0 -> IF a.v = b.v THEN a ELSE NaN
      [] a.d = 0 -> a
      [] b.d = 0 -> b
      [] OTHER -> DoubleValue((a.v * b.d) + (b.v * a.d), a.d * b.d)

f64_sub(a, b) == f64_add(a, f64_neg(b))

f64_mul(a, b) ==
    CASE IsNaN(a) \/ IsNaN(b) -> NaN
      [] a.d = 0 \/ b.d = 0 -> DoubleValue(Sign(a.v) * Sign(b.v), 0)
      [] OTHER -> DoubleValue(a.v * b.v, a.d * b.d)

f64_div(a, b) ==
    CASE IsNaN(a) \/ IsNaN(b) -> NaN
      [] a.d = 0 /\ b.d = 0 -> NaN
      [] a.d = 0 -> DoubleValue(Sign(a.v) * (IF b.v < 0 THEN -1 ELSE 1), 0)
      [] b.d = 0 -> DoubleValue(0, 1)
      [] b.v = 0 -> DoubleValue(Sign(a.v), 0)
      [] OTHER -> DoubleValue(a.v * b.d, a.d * b.v)

f64_lt(a, b) ==
    CASE IsNaN(a) \/ IsNaN(b) -> FALSE
      [] a.d = 0 /\ b.d = 0 -> a.v < b.v
      [] a.d = 0 -> a.v < 0
      [] b.d = 0 -> b.v > 0
      [] OTHER -> a.v * b.d < b.v * a.d

f64_gt(a, b) == f64_lt(b, a)

\* Seeded fault: nil and false are equal.
Value_eq_falsy(heap, a, b) ==
    \/ {a, b} = {[k |-> "Nil", v |-> 0, d |-> 1], [k |-> "Bool", v |-> 0, d |-> 1]}
    \/ /\ a.k = b.k
       /\ CASE a.k = "Nil" -> TRUE
            [] a.k = "Bool" -> a.v = b.v
            [] a.k = "Double" -> ~IsNaN(a) /\ a.v = b.v /\ a.d = b.d
            [] a.k = "String" -> Object_eq(heap, a.v, b.v)

\* #[derive(PartialEq)] on Value: same variant and equal payload; doubles by
\* IEEE ==, strings by Object's PartialEq.
Value_eq(heap, a, b) ==
    /\ a.k = b.k
    /\ CASE a.k = "Nil" -> TRUE
         [] a.k = "Bool" -> a.v = b.v
         [] a.k = "Double" -> ~IsNaN(a) /\ a.v = b.v /\ a.d = b.d
         [] a.k = "String" -> Object_eq(heap, a.v, b.v)

\* The decimal digits of the fraction r/d (0 <= r < d), while it terminates.
RECURSIVE fraction_digits(_, _, _)
fraction_digits(r, d, n) ==
    IF r = 0 \/ n = 0 THEN ""
    ELSE ToString((10 * r) \div d) \o fraction_digits((10 * r) % d, d, n - 1)

\* impl Display for Value
Value_fmt(heap, val) ==
    CASE val.k = "Nil" -> "nil"
      [] val.k = "Bool" -> IF val.v = 1 THEN "true" ELSE "false"
      [] val.k = "String" -> heap[val.v].data.inner
      [] val.k = "Double" /\ val.d = 0 ->
            IF val.v = 0 THEN "NaN" ELSE IF val.v > 0 THEN "inf" ELSE "-inf"
      [] val.k = "Double" /\ val.d = 1 -> ToString(val.v)
      [] OTHER -> (IF val.v < 0 THEN "-" ELSE "")
                  \o ToString(Abs(val.v) \div val.d) \o "."
                  \o fraction_digits(Abs(val.v) % val.d, val.d, 17)

(***************************************************************************)
(* The state: one process running main.rs with one VM.                     *)
(***************************************************************************)
VARIABLES
    stack,      \* VM.stack
    object,     \* VM.object, the head of the intrusive list of cells
    heap,       \* the cells allocated so far; a handle is an index
    strings,    \* VM.strings
    globals,    \* VM.globals
    chunk,      \* the chunk of the ChunkIter that run executes
    ip,         \* the position of the ChunkIter's cursor
    last_ip,    \* the offset of the opcode of the last instruction fetched
    pc,         \* where the process is: "start", "idle", "reading", "running",
                \* "returned", "panicked", "dropping", "exited"
    result,     \* what the last intepret call returned
    driver,     \* who calls intepret: "repl", "file" (main.rs) or "api"
    calls,      \* the number of intepret calls made
    exit_code,  \* the exit status of the process, -1 while it runs
    stdout,     \* what was written to standard output, one entry per write
    stderr,     \* the same for standard error
    maybe_obj,  \* the local of Drop::drop
    uaf,        \* a freed cell was read
    assigned,   \* history: for the name of each global, the value that
                \* DefineGlobal or SetGlobal gave it last, and in which call
    script,     \* the source text handed to the current or the last
                \* intepret call
    scanner,    \* a Scanner on its own (scanner.rs)
    token,      \* the token that its last scan_token call returned
    parser,     \* a Parser on its own (compiler/parser.rs), with the
                \* diagnostics it has written
    stretch,    \* history: since that parser was made or last synchronized,
                \* the calls of error and error_at_current made on it
                \* (errors), and the diagnostics written before (base)
    compilation \* a Compilation on its own (compiler/mod.rs): the record c,
                \* and as history the last operation (op), the number of
                \* operations (steps), the operands of the jumps not patched
                \* yet (pending), each operand written with the offset
                \* computed for it (patched), and each index that
                \* add_constant returned with the value added (added)

vars ==
    <<stack, object, heap, strings, globals, chunk, ip, last_ip, pc, result,
      driver, calls, exit_code, stdout, stderr, maybe_obj, uaf, assigned,
      script, scanner, token, parser, stretch, compilation>>

\* The scanner and the parser that are exercised on their own.
front == <<scanner, token, parser, stretch, compilation>>

\* The sessions explored: at most MaxCalls intepret calls on the VM.
MaxCalls == 3

\* The lines typed into the REPL and the texts of the files run.
Lines ==
    {"var a = 1;",
     "a = a + 1;",
     "print a;",
     "var s = \"x\" + \"y\";",
     "print s == \"xy\";",
     "print 1 + nil;",
     "var = 1; var b = 2;",
     "print -nil;",
     "b = 2;"}

Files ==
    {"var a = 1;\n{ var x = a; x = x * 2 - 1; print !(x / 1 > 3); }",
     "var i = 0;\nwhile (i < 2) i = i + 1;\nif (i == 3 or false) print nil; else print true or 1;",
     "print 1;\nprint (2;",
     "var a = \"s\";\n\nprint a < 1;"}

\* The operands of the files that print one comparison.
EqualOperands ==
    {"nil", "true", "false", "0", "1", "\"a\"", "\"\"", "0 / 0",
     "\"a\" + \"\""}

EqualProgram(x, y) == "print " \o x \o " == " \o y \o ";"

\* The operands of the files that negate a value and that branch on one.
TruthOperands == {"nil", "true", "false", "0", "1", "\"\"", "\"a\""}

NotProgram(x) == "print !" \o x \o ";"

IfProgram(x) == "if (" \o x \o ") print 1; else print 2;"

\* The operands of the files with and and or: the left one, and the one that
\* the right operand assigns to a.
LeftOperands == {"nil", "false", "true", "0"}

RightOperands == {"nil", "false", "1"}

AndProgram(x, y) ==
    "var a = 0; print " \o x \o " and (a = " \o y \o "); print a;"

OrProgram(x, y) ==
    "var a = 0; print " \o x \o " or (a = " \o y \o "); print a;"

\* The operands of the files that subtract twice.
Minuends == 1..3

SubtractProgram(a, b, c) ==
    "print " \o ToString(a) \o " - " \o ToString(b) \o " - " \o ToString(c)
    \o ";"

\* Files whose output depends on the precedence of the operators, with the
\* output.
Precedences ==
    {<<"print 1 + 2 * 3;", "7\n">>,
     <<"print 2 * 3 + 1;", "7\n">>,
     <<"print 8 / 4 / 2;", "1\n">>,
     <<"print 1 + 2 < 4;", "true\n">>,
     <<"print 4 > 1 + 2;", "true\n">>,
     <<"print 1 < 2 == true;", "true\n">>,
     <<"print false == 2 < 1;", "true\n">>,
     <<"print -2 + 3;", "1\n">>,
     <<"print !false == true;", "true\n">>}

\* Files in which = follows something that is no variable.
BadTargets == {"a + b = c;", "1 = 2;", "var a; var b; a * b = 3;", "(a) = 1;"}

\* Files that print inside their scopes, each with the number of locals in
\* scope at each of its print statements, in the order of execution.
Scoped ==
    {<<"{ var a = 1; print a; { var b = 2; a = b = 3; print b; } print a; } print 0;",
       <<1, 2, 1, 0>>>>,
     <<"for (var i = 0; i < 2; i = i + 1) { var j = i; print j; } print nil;",
       <<2, 2, 0>>>>,
     <<"{ var a = 1; if (a) { var b = a; print b; } else print a; print a; }",
       <<2, 1>>>>,
     <<"{ var a; if (a) print a; else { var b = 1; var c = b; print c; } }",
       <<3>>>>,
     <<"var g; { var a = 2; g = a; g; { var b = g; print b; } } print g;",
       <<2, 0>>>>,
     <<"{ var a = 1; var b = a + nil; print a; }", <<2>>>>}

\* More files, about scopes, locals, loops and operators.
Programs ==
    {p[1] : p \in Scoped}
    \cup
    BadTargets
    \cup
    {SubtractProgram(a, b, c) : a \in Minuends, b \in Minuends, c \in Minuends}
    \cup
    {p[1] : p \in Precedences}
    \cup
    {AndProgram(x, y) : x \in LeftOperands, y \in RightOperands}
    \cup
    {OrProgram(x, y) : x \in LeftOperands, y \in RightOperands}
    \cup
    {"if (1 < 2 and 2 < 3) print \"ok\"; else print \"no\";"}
    \cup
    {EqualProgram(x, y) : x, y \in EqualOperands}
    \cup
    {NotProgram(x) : x \in TruthOperands}
    \cup
    {IfProgram(x) : x \in TruthOperands}
    \cup
    {"{ var a; var a; }",
     "{ var a; { var b; var a; var b; } }",
     "{ var a; { var a; } }",
     "var a; var a;",
     "{ var x = x; }",
     "{ var x = 1; { var x = x; } }",
     "{ var x = 1; { var x = 2; print x; } print x; }",
     "var a = 1; { var a = 2; { var a = 3; print a; } print a; } print a;",
     "var x = 1; { print x; var x = 2; { print x; x = 3; } print x; } print x;",
     "var s = 0; for (var i = 1; i <= 5; i = i + 1) { s = s + i; } print s;",
     "for (var i = 0; i < 2; i = i + 1) print i; print nil;",
     "var a = 1; var a = \"b\"; print a;",
     "var a = \"foo\"; var b = \"bar\"; print a + b;",
     "print \"fo\" + \"o\" == \"foo\";",
     "print -\"a\";"}

\* The long files compiled: short ones, and ones at the limits of the
\* constant table, of the locals and of the 16-bit jump operands.
LongFiles ==
    [shape : {"numbers"}, count : {0, 1, 2, 254, 255, 256},
     rest : {"", "1;", "1; 2;", "nil;", "\"s\";", "var g = 1;"}]
    \cup
    [shape : {"locals"}, count : {0, 1, 2, 253, 254, 255},
     rest : {"}", "var a; }", "var a; var b; }", "{ var a; var b; } }",
             "var a; { var b; } }", "{ var a; } var b; }"}]
    \cup
    [shape : {"if"}, count : {0, 1, 2, 32763, 32764},
     rest : {"}", "nil; }", "!nil; }", "nil; nil; }", "!nil; } else nil;",
             "nil; nil; } else nil;"}]
    \cup
    [shape : {"while"}, count : {0, 1, 2, 32761, 32762},
     rest : {"}", "nil; }", "!nil; }", "nil; nil; }", "!nil; nil; }"}]

\* Compilation::new on an empty source, before execute.
Compiling ==
    [c       |-> Compilation_new([object |-> None, heap |-> <<>>,
                                  strings |-> <<>>], ""),
     op      |-> "new", steps |-> 0,
     pending |-> <<>>, patched |-> {}, added |-> {}]

Init ==
    /\ stack = <<>>
    /\ object = None
    /\ heap = <<>>
    /\ strings = <<>>
    /\ globals = <<>>
    /\ chunk = Chunk_default
    /\ ip = 0
    /\ last_ip = 0
    /\ driver \in {"none", "api"}
    /\ pc = IF driver = "api" THEN "idle" ELSE "start"
    /\ result = "None"
    /\ calls = 0
    /\ exit_code = -1
    /\ stdout = <<>>
    /\ stderr = <<>>
    /\ maybe_obj = None
    /\ uaf = FALSE
    /\ assigned = <<>>
    /\ script = ""
    /\ scanner = Scanner_new("")
    /\ token = UninitToken
    /\ parser = Parser_fields
    /\ stretch = [errors |-> 0, base |-> 0]
    /\ compilation = Compiling

(***************************************************************************)
(* VM::intepret up to the call of run: compile, and either return          *)
(* Err(Compile) or enter the dispatch loop at offset 0.                    *)
(***************************************************************************)
\* What reading a token slot that was never written can deliver: any token
\* (here three of them), or a fault of the process ("Crash").
UninitOutcomes ==
    {Token_new("Eof", "", 0), Token_new("Error", "", 0),
     Token_new("Identifier", "?", 7), Token_new("Crash", "", 0)}

Garbage(c) == IF c.uninit_read THEN UninitOutcomes ELSE {UninitToken}

diagnostics(c, g) ==
    [i \in 1..Len(c.diag) |->
        format_diagnostic(IF c.diag[i].ty = "Uninit"
                          THEN Diagnostic(g, c.diag[i].message)
                          ELSE c.diag[i])]

\* Seeded fault: every call starts with an empty table of globals.
intepret_fresh_globals(r) ==
        \E g \in Garbage(r.c) :
        /\ object' = r.c.vm.object
        /\ heap' = r.c.vm.heap
        /\ strings' = r.c.vm.strings
        /\ calls' = calls + 1
        /\ IF g.ty = "Crash"
           THEN /\ pc' = "exited" /\ exit_code' = 139
                /\ UNCHANGED <<chunk, ip, result, stderr>>
           ELSE /\ stderr' = stderr \o diagnostics(r.c, g)
                /\ exit_code' = exit_code
                /\ IF r.c.panic
                   THEN pc' = "panicked" /\ UNCHANGED <<chunk, ip, result>>
                   ELSE IF ~r.ok
                   THEN pc' = "returned" /\ result' = "Compile"
                        /\ UNCHANGED <<chunk, ip>>
                   ELSE pc' = "running" /\ chunk' = r.c.chunk /\ ip' = 0
                        /\ UNCHANGED result
        /\ globals' = <<>>
        /\ UNCHANGED <<stack, last_ip, driver, stdout, maybe_obj, uaf,
                   assigned, front>>

\* VM::intepret after compilation.execute() has returned r = [ok, c].
intepret_compiled(r) ==
        \E g \in Garbage(r.c) :
        /\ object' = r.c.vm.object
        /\ heap' = r.c.vm.heap
        /\ strings' = r.c.vm.strings
        /\ calls' = calls + 1
        /\ IF g.ty = "Crash"
           THEN /\ pc' = "exited" /\ exit_code' = 139
                /\ UNCHANGED <<chunk, ip, result, stderr>>
           ELSE /\ stderr' = stderr \o diagnostics(r.c, g)
                /\ exit_code' = exit_code
                /\ IF r.c.panic
                   THEN pc' = "panicked" /\ UNCHANGED <<chunk, ip, result>>
                   ELSE IF ~r.ok
                   THEN pc' = "returned" /\ result' = "Compile"
                        /\ UNCHANGED <<chunk, ip>>
                   ELSE pc' = "running" /\ chunk' = r.c.chunk /\ ip' = 0
                        /\ UNCHANGED result
        /\ UNCHANGED <<stack, globals, last_ip, driver, stdout, maybe_obj,
                   uaf, assigned, front>>

intepret(source) ==
    /\ script' = source
    /\ intepret_compiled(
          call("compile",
               [panic |-> FALSE,
                vm |-> [object |-> object, heap |-> heap, strings |-> strings]],
               source))

(***************************************************************************)
(* The drivers: main, repl and run_file of main.rs, and a caller of the    *)
(* public VM::intepret that goes on after any result ("api").              *)
(***************************************************************************)
main ==
    /\ pc = "start"
    /\ \E nargs \in 1..3 :
          CASE nargs = 1 -> driver' = "repl" /\ pc' = "idle"
                            /\ UNCHANGED <<stderr, exit_code>>
            [] nargs = 2 -> driver' = "file" /\ pc' = "idle"
                            /\ UNCHANGED <<stderr, exit_code>>
            [] OTHER -> /\ stderr' = Append(stderr, "Usage: clox [path]")
                        /\ exit_code' = 64 /\ pc' = "exited"
                        /\ UNCHANGED driver
    /\ UNCHANGED <<stack, object, heap, strings, globals, chunk, ip, last_ip,
                   result, calls, stdout, maybe_obj, uaf, assigned, script, front>>

\* repl: print!("> ") and flush.
repl_prompt ==
    /\ pc = "idle" /\ driver = "repl"
    /\ stdout' = Append(stdout, "> ")
    /\ pc' = "reading"
    /\ UNCHANGED <<stack, object, heap, strings, globals, chunk, ip, last_ip,
                   result, driver, calls, exit_code, stderr, maybe_obj, uaf, assigned, script, front>>

\* repl: read_line delivers a line, which ends with its newline.
repl_line ==
    /\ pc = "reading" /\ calls < MaxCalls
    /\ \E line \in Lines : intepret(line \o "\n")

\* repl: read_line delivers Ok(0) or Err: println!(), break; the VM is
\* dropped when repl returns.
repl_eof ==
    /\ pc = "reading"
    /\ stdout' = Append(stdout, "\n")
    /\ pc' = "dropping" /\ maybe_obj' = object /\ exit_code' = 0
    /\ UNCHANGED <<stack, object, heap, strings, globals, chunk, ip, last_ip,
                   result, driver, calls, stderr, uaf, assigned, script, front>>

\* repl: vm.intepret(&line).unwrap()
repl_unwrap ==
    /\ pc = "returned" /\ driver = "repl"
    /\ pc' = IF result = "Ok" THEN "idle" ELSE "panicked"
    /\ UNCHANGED <<stack, object, heap, strings, globals, chunk, ip, last_ip,
                   result, driver, calls, exit_code, stdout, stderr, maybe_obj,
                   uaf, assigned, script, front>>

run_file ==
    /\ pc = "idle" /\ driver = "file" /\ calls = 0
    /\ \E source \in Files \cup Lines \cup Programs : intepret(source)

\* run_file: Ok returns from run_file, which drops the VM; the Err arms call
\* exit, which runs no destructor.
\* run_file with a long file, up to the return of the compiler.
run_long_file ==
    /\ pc = "idle" /\ driver = "file" /\ calls = 0
    /\ \E file \in LongFiles :
          /\ script' = file
          /\ intepret_compiled(
                call("compile_long",
                     [panic |-> FALSE,
                      vm |-> [object |-> object, heap |-> heap,
                              strings |-> strings]],
                     file))

run_file_result ==
    /\ pc = "returned" /\ driver = "file"
    /\ CASE result = "Ok" ->
              pc' = "dropping" /\ maybe_obj' = object /\ exit_code' = 0
         [] result = "Compile" ->
              pc' = "exited" /\ exit_code' = 65 /\ UNCHANGED maybe_obj
         [] result = "Runtime" ->
              pc' = "exited" /\ exit_code' = 70 /\ UNCHANGED maybe_obj
    /\ UNCHANGED <<stack, object, heap, strings, globals, chunk, ip, last_ip,
                   result, driver, calls, stdout, stderr, uaf, assigned, script, front>>

api_call ==
    /\ pc = "idle" /\ driver = "api" /\ calls < MaxCalls
    /\ \E source \in Files \cup Lines : intepret(source)

api_result ==
    /\ pc = "returned" /\ driver = "api"
    /\ pc' = "idle"
    /\ UNCHANGED <<stack, object, heap, strings, globals, chunk, ip, last_ip,
                   result, driver, calls, exit_code, stdout, stderr, maybe_obj,
                   uaf, assigned, script, front>>

\* The api caller lets go of the VM.
api_drop ==
    /\ pc = "idle" /\ driver = "api"
    /\ pc' = "dropping" /\ maybe_obj' = object /\ exit_code' = 0
    /\ UNCHANGED <<stack, object, heap, strings, globals, chunk, ip, last_ip,
                   result, driver, calls, stdout, stderr, uaf, assigned, script, front>>

\* A panic unwinds the stack of the thread, which drops the VM; the process
\* then ends with status 101.
unwind ==
    /\ pc = "panicked"
    /\ pc' = "dropping" /\ maybe_obj' = object /\ exit_code' = 101
    /\ UNCHANGED <<stack, object, heap, strings, globals, chunk, ip, last_ip,
                   result, driver, calls, stdout, stderr, uaf, assigned, script, front>>

(***************************************************************************)
(* impl Drop for VM: one iteration of the loop, and its end.               *)
(***************************************************************************)
\* Object::next
Object_next(cell) == cell.next

\* Object::drop_inner
Object_drop_inner(cell) == [cell EXCEPT !.frees = @ + 1]

\* Seeded fault: the cell is released first and its link read afterwards;
\* the read of released memory delivers the old link or anything else.
drop_step_free_first ==
    /\ pc = "dropping" /\ maybe_obj # None
    /\ heap' = [heap EXCEPT ![maybe_obj] = Object_drop_inner(@)]
    /\ uaf' = TRUE
    /\ maybe_obj' \in {Object_next(heap[maybe_obj]), maybe_obj}
    /\ UNCHANGED <<stack, object, strings, globals, chunk, ip, last_ip, pc,
                   result, driver, calls, exit_code, stdout, stderr, assigned, script, front>>

drop_step ==
    /\ pc = "dropping" /\ maybe_obj # None
    /\ maybe_obj' = Object_next(heap[maybe_obj])
    /\ uaf' = (uaf \/ heap[maybe_obj].frees > 0)
    /\ heap' = [heap EXCEPT ![maybe_obj] = Object_drop_inner(@)]
    /\ UNCHANGED <<stack, object, strings, globals, chunk, ip, last_ip, pc,
                   result, driver, calls, exit_code, stdout, stderr, assigned, script, front>>

drop_done ==
    /\ pc = "dropping" /\ maybe_obj = None
    /\ pc' = "exited"
    /\ UNCHANGED <<stack, object, heap, strings, globals, chunk, ip, last_ip,
                   result, driver, calls, exit_code, stdout, stderr, maybe_obj,
                   uaf, assigned, script, front>>

(***************************************************************************)
(* VM::run: one action per arm of the dispatch loop.  An arm whose unwrap  *)
(* or index fails panics (vm_panic).                                       *)
(***************************************************************************)
\* The byte at distance i from the cursor (i = 0 is the opcode).
ByteAt(i) == chunk.code[ip + i + 1]

CanRead(n) == ip + n <= Len(chunk.code)

\* Opcode::try_from(iter.read_u8()); "Eof" when read_exact finds no byte.
Fetched == IF CanRead(1) THEN Opcode_try_from(ByteAt(0)) ELSE "Eof"

\* ChunkIter::read_u16 of the two operand bytes
read_u16 == (ByteAt(1) * 256) + ByteAt(2)

\* ChunkIter::read_constant
read_constant == chunk.constants[ByteAt(1) + 1]

HasConstant == CanRead(2) /\ ByteAt(1) < Len(chunk.constants)

\* read_string unwraps as_objstring
HasString == HasConstant /\ is_string(read_constant)

\* VM::peek(distance)
VM_peek(distance) == stack[Len(stack) - distance]

\* the stack after VM::pop
Popped(stk) == SubSeq(stk, 1, Len(stk) - 1)

BinaryOps == {"Greater", "Less", "Add", "Subtract", "Multiply", "Divide"}

\* The arm fetched panics: a read past the code, a constant or slot that does
\* not exist, a pop or peek of a missing stack cell, a seek before offset 0.
Panics ==
    LET op == Fetched
    IN  CASE op = "Eof" -> TRUE
          [] op = "Constant" -> ~HasConstant
          [] op \in {"Not", "Pop", "Negate", "Print"} -> stack = <<>>
          [] op = "GetLocal" -> ~CanRead(2) \/ ByteAt(1) >= Len(stack)
          [] op = "SetLocal" ->
                ~CanRead(2) \/ stack = <<>> \/ ByteAt(1) >= Len(stack)
          [] op = "GetGlobal" -> ~HasString
          [] op \in {"DefineGlobal", "SetGlobal"} -> ~HasString \/ stack = <<>>
          [] op = "Equal" -> Len(stack) < 2
          [] op \in BinaryOps -> Len(stack) < 2
          [] op = "Jump" -> ~CanRead(3)
          [] op = "JumpIfFalse" -> ~CanRead(3) \/ stack = <<>>
          [] op = "Loop" -> ~CanRead(3) \/ ip + 3 < read_u16
          [] OTHER -> FALSE

Fetch(op) == pc = "running" /\ Fetched = op /\ ~Panics

\* VM::runtime_error: what standard error holds afterwards (the stack is
\* cleared by the caller of this operator).  offset is iter.offset().
runtime_error(err, offset, message) ==
    err \o <<message, "[line " \o ToString(offset) \o "] in script">>

\* An arm that only changes the stack and moves the cursor.
Exec(new_stack, new_ip) ==
    /\ stack' = new_stack
    /\ ip' = new_ip
    /\ last_ip' = ip
    /\ UNCHANGED <<object, heap, strings, globals, chunk, pc, result, driver,
                   calls, exit_code, stdout, stderr, maybe_obj, uaf, assigned, script, front>>

\* An arm that reports a runtime error and goes on with the loop.
Report(message, new_ip) ==
    /\ stack' = <<>>
    /\ stderr' = runtime_error(stderr, new_ip, message)
    /\ ip' = new_ip
    /\ last_ip' = ip
    /\ UNCHANGED <<object, heap, strings, globals, chunk, pc, result, driver,
                   calls, exit_code, stdout, maybe_obj, uaf, assigned, script, front>>

\* An arm that reports a runtime error and returns Err(Runtime).
Fail(message, new_ip) ==
    /\ stack' = <<>>
    /\ stderr' = runtime_error(stderr, new_ip, message)
    /\ ip' = new_ip
    /\ last_ip' = ip
    /\ pc' = "returned"
    /\ result' = "Runtime"
    /\ UNCHANGED <<object, heap, strings, globals, chunk, driver, calls,
                   exit_code, stdout, maybe_obj, uaf, assigned, script, front>>

OpConstant == Fetch("Constant") /\ Exec(Append(stack, read_constant), ip + 2)

OpNot ==
    /\ Fetch("Not")
    /\ Exec(Append(Popped(stack), BoolValue(~is_truthy(VM_peek(0)))), ip + 1)

OpNil == Fetch("Nil") /\ Exec(Append(stack, NilValue), ip + 1)

OpTrue == Fetch("True") /\ Exec(Append(stack, BoolValue(TRUE)), ip + 1)

OpFalse == Fetch("False") /\ Exec(Append(stack, BoolValue(FALSE)), ip + 1)

OpPop == Fetch("Pop") /\ Exec(Popped(stack), ip + 1)

OpGetLocal == Fetch("GetLocal") /\ Exec(Append(stack, stack[ByteAt(1) + 1]), ip + 2)

\* The history of a global after it received value under the name held by
\* the cell name.
Assigned(name, value) ==
    [n \in DOMAIN assigned \cup {heap[name].data.inner} |->
        IF n = heap[name].data.inner THEN [value |-> value, call |-> calls]
        ELSE assigned[n]]

undefined_variable(name) == "Undefined variable '" \o heap[name].data.inner \o "'"

OpGetGlobal ==
    /\ Fetch("GetGlobal")
    /\ LET name == read_constant.v
           key  == Table_get(heap, globals, name)
       IN  IF key # None
           THEN Exec(Append(stack, globals[key]), ip + 2)
           ELSE Fail(undefined_variable(name), ip + 2)

\* Seeded fault: defining a name that is a global already is reported.
OpDefineGlobal_once ==
    /\ Fetch("DefineGlobal")
    /\ IF Table_get(heap, globals, read_constant.v) # None
       THEN /\ Fail("Already a variable with this name.", ip + 2)
            /\ UNCHANGED globals
       ELSE /\ globals' = Table_insert(heap, globals, read_constant.v,
                                       VM_peek(0))
            /\ assigned' = Assigned(read_constant.v, VM_peek(0))
            /\ stack' = Popped(stack)
            /\ ip' = ip + 2
            /\ last_ip' = ip
            /\ UNCHANGED <<object, heap, strings, chunk, pc, result, driver,
                           calls, exit_code, stdout, stderr, maybe_obj, uaf,
                           script, front>>

OpDefineGlobal ==
    /\ Fetch("DefineGlobal")
    /\ globals' = Table_insert(heap, globals, read_constant.v, VM_peek(0))
    /\ assigned' = Assigned(read_constant.v, VM_peek(0))
    /\ stack' = Popped(stack)
    /\ ip' = ip + 2
    /\ last_ip' = ip
    /\ UNCHANGED <<object, heap, strings, chunk, pc, result, driver, calls,
                   exit_code, stdout, stderr, maybe_obj, uaf, script, front>>

OpSetLocal ==
    /\ Fetch("SetLocal")
    /\ Exec([stack EXCEPT ![ByteAt(1) + 1] = VM_peek(0)], ip + 2)

\* Seeded fault: SetGlobal on a missing name leaves the entry it inserted.
OpSetGlobal_defining ==
    /\ Fetch("SetGlobal")
    /\ LET name == read_constant.v
           key  == Table_get(heap, globals, name)
       IN  IF key # None
           THEN /\ globals' = [globals EXCEPT ![key] = VM_peek(0)]
                /\ assigned' = Assigned(name, VM_peek(0))
                /\ ip' = ip + 2
                /\ last_ip' = ip
                /\ UNCHANGED <<stack, object, heap, strings, chunk, pc, result,
                               driver, calls, exit_code, stdout, stderr,
                               maybe_obj, uaf, script, front>>
           ELSE /\ globals' = Table_insert(heap, globals, name, VM_peek(0))
                /\ stack' = <<>>
                /\ stderr' = runtime_error(stderr, ip + 2,
                                           undefined_variable(name))
                /\ ip' = ip + 2
                /\ last_ip' = ip
                /\ pc' = "returned"
                /\ result' = "Runtime"
                /\ UNCHANGED <<object, heap, strings, chunk, driver, calls,
                               exit_code, stdout, maybe_obj, uaf, assigned, script, front>>

OpSetGlobal ==
    /\ Fetch("SetGlobal")
    /\ LET name == read_constant.v
           key  == Table_get(heap, globals, name)
       IN  IF key # None
           THEN /\ globals' = [globals EXCEPT ![key] = VM_peek(0)]
                /\ assigned' = Assigned(name, VM_peek(0))
                /\ ip' = ip + 2
                /\ last_ip' = ip
                /\ UNCHANGED <<stack, object, heap, strings, chunk, pc, result,
                               driver, calls, exit_code, stdout, stderr,
                               maybe_obj, uaf, script, front>>
           ELSE /\ Fail(undefined_variable(name), ip + 2)
                /\ UNCHANGED globals

OpEqual ==
    /\ Fetch("Equal")
    /\ LET a == VM_peek(0)
           b == VM_peek(1)
       IN  Exec(Append(Popped(Popped(stack)), BoolValue(Value_eq(heap, a, b))),
                ip + 1)

\* a $op b for the operator token handed to binary_op!
binary_apply(op, a, b) ==
    CASE op = ">" -> BoolValue(f64_gt(a, b))
      [] op = "<" -> BoolValue(f64_lt(a, b))
      [] op = "+" -> f64_add(a, b)
      [] op = "-" -> f64_sub(a, b)
      [] op = "*" -> f64_mul(a, b)
      [] op = "/" -> f64_div(a, b)

\* binary_op!: a = peek(1), b = peek(0); two doubles are replaced by a $op b,
\* anything else is reported.
binary_op(op) ==
    LET a == VM_peek(1)
        b == VM_peek(0)
    IN  IF is_double(a) /\ is_double(b)
        THEN Exec(Append(Popped(Popped(stack)), binary_apply(op, a, b)), ip + 1)
        ELSE Report("Operands must be numbers.", ip + 1)

OpGreater == Fetch("Greater") /\ binary_op(">")

OpLess == Fetch("Less") /\ binary_op("<")

\* Seeded fault: the right operand comes first in the concatenation.
OpAdd_reversed ==
    /\ Fetch("Add")
    /\ LET a == VM_peek(0)
           b == VM_peek(1)
       IN  IF is_string(a) /\ is_string(b)
           THEN LET concatenated == heap[a.v].data.inner \o heap[b.v].data.inner
                    r == allocate_string(
                             [object |-> object, heap |-> heap,
                              strings |-> strings], concatenated)
                IN  /\ object' = r.vm.object
                    /\ heap' = r.vm.heap
                    /\ strings' = r.vm.strings
                    /\ stack' = Append(Popped(Popped(stack)), StringValue(r.obj))
                    /\ ip' = ip + 1
                    /\ last_ip' = ip
                    /\ UNCHANGED <<globals, chunk, pc, result, driver, calls,
                                   exit_code, stdout, stderr, maybe_obj, uaf, assigned, script, front>>
           ELSE binary_op("+")

OpAdd ==
    /\ Fetch("Add")
    /\ LET a == VM_peek(1)
           b == VM_peek(0)
       IN  IF is_string(a) /\ is_string(b)
           THEN LET concatenated == heap[a.v].data.inner \o heap[b.v].data.inner
                    r == allocate_string(
                             [object |-> object, heap |-> heap,
                              strings |-> strings], concatenated)
                IN  /\ object' = r.vm.object
                    /\ heap' = r.vm.heap
                    /\ strings' = r.vm.strings
                    /\ stack' = Append(Popped(Popped(stack)), StringValue(r.obj))
                    /\ ip' = ip + 1
                    /\ last_ip' = ip
                    /\ UNCHANGED <<globals, chunk, pc, result, driver, calls,
                                   exit_code, stdout, stderr, maybe_obj, uaf, assigned, script, front>>
           ELSE binary_op("+")

OpSubtract == Fetch("Subtract") /\ binary_op("-")

OpMultiply == Fetch("Multiply") /\ binary_op("*")

OpDivide == Fetch("Divide") /\ binary_op("/")

OpNegate ==
    /\ Fetch("Negate")
    /\ IF is_double(VM_peek(0))
       THEN Exec(Append(Popped(stack), f64_neg(VM_peek(0))), ip + 1)
       ELSE Fail("Operand must be a number.", ip + 1)

OpPrint ==
    /\ Fetch("Print")
    /\ stdout' = Append(stdout, Value_fmt(heap, VM_peek(0)) \o "\n")
    /\ stack' = Popped(stack)
    /\ ip' = ip + 1
    /\ last_ip' = ip
    /\ UNCHANGED <<object, heap, strings, globals, chunk, pc, result, driver,
                   calls, exit_code, stderr, maybe_obj, uaf, assigned, script, front>>

OpJump == Fetch("Jump") /\ Exec(stack, ip + 3 + read_u16)

OpJumpIfFalse ==
    /\ Fetch("JumpIfFalse")
    /\ Exec(stack, IF ~is_truthy(VM_peek(0)) THEN ip + 3 + read_u16 ELSE ip + 3)

OpLoop == Fetch("Loop") /\ Exec(stack, ip + 3 - read_u16)

\* The two arms that leave run without a report: Return gives Ok(()), a byte
\* that is no opcode gives Err(Runtime).
OpReturn ==
    /\ pc = "running" /\ Fetched \in {"Return", "Err"}
    /\ result' = IF Fetched = "Return" THEN "Ok" ELSE "Runtime"
    /\ pc' = "returned"
    /\ ip' = ip + 1
    /\ last_ip' = ip
    /\ UNCHANGED <<stack, object, heap, strings, globals, chunk, driver, calls,
                   exit_code, stdout, stderr, maybe_obj, uaf, assigned, script, front>>

vm_panic ==
    /\ pc = "running" /\ Panics
    /\ pc' = "panicked"
    /\ last_ip' = ip
    /\ UNCHANGED <<stack, object, heap, strings, globals, chunk, ip, result,
                   driver, calls, exit_code, stdout, stderr, maybe_obj, uaf, assigned, script, front>>

run ==
    \/ OpConstant \/ OpNot \/ OpNil \/ OpTrue \/ OpFalse \/ OpPop
    \/ OpGetLocal \/ OpGetGlobal \/ OpDefineGlobal \/ OpSetLocal \/ OpSetGlobal
    \/ OpEqual \/ OpGreater \/ OpLess \/ OpAdd \/ OpSubtract \/ OpMultiply
    \/ OpDivide \/ OpNegate \/ OpPrint \/ OpJump \/ OpJumpIfFalse \/ OpLoop
    \/ OpReturn \/ vm_panic

Next ==
    \/ main
    \/ repl_prompt \/ repl_line \/ repl_eof \/ repl_unwrap
    \/ run_file \/ run_file_result
    \/ api_call \/ api_result \/ api_drop
    \/ unwind \/ drop_step \/ drop_done
    \/ run

Spec == Init /\ [][Next]_vars

\* The compiler alone, on the long files.
CompilerNext == main \/ run_long_file

CompilerSpec == Init /\ [][CompilerNext]_vars

\* The drop loop is straight-line code: once entered it keeps running.
FairSpec == Spec /\ WF_vars(drop_step) /\ WF_vars(drop_done)

(***************************************************************************)
(* The scanner on its own (scanner.rs): Scanner::new on a source text,     *)
(* then scan_token called again and again, as Parser::advance calls it.    *)
(***************************************************************************)
Sources ==
    {"1.5", "12.25;", "1.", "7", "1.x", "0.5 + 2", "1x.5", "3 .5",
     "print 1.5;", "a = \"s\" // c\nb", "\"open", "@ #", "// only",
     " \t\r\n", "!= ! <= < >= > == =", "var x1 = nil;", "/ /", "\"a\nb\" 1",
     "(){},.-+*", "for fun if or and", "a//", "1 /2//3\n4", "x\n\ny", "$",
     "1\n.5", "\"a\n\nb\n", "// c\n// d\n\n@", "7x.0;"}

Scanner_construct ==
    /\ scanner = Scanner_new("") /\ token = UninitToken
    /\ \E source \in Sources : scanner' = Scanner_new(source)
    /\ UNCHANGED <<stack, object, heap, strings, globals, chunk, ip, last_ip,
                   pc, result, driver, calls, exit_code, stdout, stderr,
                   maybe_obj, uaf, assigned, script, token, parser, stretch,
                   compilation>>

Scanner_scan_token ==
    /\ LET r == scan_token(scanner)
       IN  scanner' = r.s /\ token' = r.tok
    /\ UNCHANGED <<stack, object, heap, strings, globals, chunk, ip, last_ip,
                   pc, result, driver, calls, exit_code, stdout, stderr,
                   maybe_obj, uaf, assigned, script, parser, stretch,
                   compilation>>

ScannerNext == Scanner_construct \/ Scanner_scan_token

ScannerSpec == Init /\ [][ScannerNext]_vars

(***************************************************************************)
(* The parser on its own (compiler/parser.rs): Parser::new on a source     *)
(* text, then the calls that the compiler makes on it, in any order.       *)
(***************************************************************************)
Fragments ==
    {"var 1 = ;", "print ; print 2;", "a b c; d", "@ # 1;", "1 + ; var x;",
     "( ; ) if", "\"open", "print @;", "1 + @ 2; print 3;", "a\n$ b;"}

Messages == {"Expect expression.", "Expect ';' after value."}

Expected == {"Semicolon", "Identifier", "Var"}

\* The compilation stops reporting after MaxErrors diagnostics.
MaxErrors == 3

ParserFrame ==
    UNCHANGED <<stack, object, heap, strings, globals, chunk, ip, last_ip,
                pc, result, driver, calls, exit_code, stdout, stderr,
                maybe_obj, uaf, assigned, script, scanner, token,
                compilation>>

Constructed ==
    /\ parser.current.ty # "Uninit"
    /\ Len(parser.diag) < MaxErrors /\ stretch.errors < MaxErrors

Parser_construct ==
    /\ parser = Parser_fields
    /\ \E source \in Fragments : parser' = Parser_new(parser, source)
    /\ UNCHANGED stretch
    /\ ParserFrame

Parser_do_advance ==
    /\ Constructed /\ parser.current.ty # "Eof"
    /\ parser' = Parser_advance(parser)
    /\ UNCHANGED stretch
    /\ ParserFrame

Parser_do_consume ==
    /\ Constructed
    /\ \E ty \in Expected, message \in Messages :
          parser' = consume(parser, ty, message)
    /\ UNCHANGED stretch
    /\ ParserFrame

Parser_do_matches ==
    /\ Constructed
    /\ \E ty \in Expected : parser' = Parser_matches(parser, ty).c
    /\ UNCHANGED stretch
    /\ ParserFrame

Parser_do_error ==
    /\ Constructed /\ parser.previous.ty # "Uninit"
    /\ \E message \in Messages : parser' = Parser_error(parser, message)
    /\ stretch' = [stretch EXCEPT !.errors = @ + 1]
    /\ ParserFrame

Parser_do_error_at_current ==
    /\ Constructed
    /\ \E message \in Messages : parser' = error_at_current(parser, message)
    /\ stretch' = [stretch EXCEPT !.errors = @ + 1]
    /\ ParserFrame

\* declaration: if self.parser.panic_mode() { self.parser.synchronize(); }
Parser_do_synchronize ==
    /\ Constructed /\ parser.panic_mode
    /\ parser' = synchronize(parser)
    /\ stretch' = [errors |-> 0, base |-> Len(parser.diag)]
    /\ ParserFrame

ParserNext ==
    \/ Parser_construct
    \/ Parser_do_advance \/ Parser_do_consume \/ Parser_do_matches
    \/ Parser_do_error \/ Parser_do_error_at_current
    \/ Parser_do_synchronize

ParserSpec == Init /\ [][ParserNext]_vars

(***************************************************************************)
(* The emitting half of the compilation on its own (compiler/mod.rs,       *)
(* chunk.rs): the operations on the chunk and on the scopes, in any order, *)
(* as the statements of a source bring them about.                         *)
(***************************************************************************)
\* At most MaxSteps operations are made on the compilation.
MaxSteps == 5

\* The code of a long expression: emit_bytes([Opcode::Nil]) called 300
\* times, in closed form.
emit_filler(c) ==
    [c EXCEPT !.chunk.code = @ \o [i \in 1..300 |-> Opcode("Nil")],
              !.chunk.lines = @ \o [i \in 1..300 |-> c.previous.line]]

LocalNames == {"a", "b"}

EmitterFrame ==
    UNCHANGED <<stack, object, heap, strings, globals, chunk, ip, last_ip,
                pc, result, driver, calls, exit_code, stdout, stderr,
                maybe_obj, uaf, assigned, script, scanner, token, parser,
                stretch>>

Stepped(op, c) ==
    [compilation EXCEPT !.c = c, !.op = op, !.steps = @ + 1]

\* Chunk::write, through emit_bytes, for the code of some expressions.
Compilation_do_emit_bytes ==
    /\ compilation.steps < MaxSteps
    /\ \E long \in BOOLEAN :
          compilation' =
              Stepped("emit_bytes",
                      IF long THEN emit_filler(compilation.c)
                      ELSE emit_bytes(compilation.c, <<Opcode("Nil")>>))
    /\ EmitterFrame

\* Chunk::add_constant; the k-th value added is the number k.
Compilation_do_add_constant ==
    /\ compilation.steps < MaxSteps
    /\ LET value == DoubleValue(Len(compilation.c.chunk.constants) + 1, 1)
           a     == Chunk_add_constant(compilation.c.chunk, value)
       IN  compilation' =
               [Stepped("add_constant",
                        [compilation.c EXCEPT !.chunk = a.chunk])
                   EXCEPT !.added = @ \cup {<<a.index, value>>}]
    /\ EmitterFrame

Compilation_do_emit_jump ==
    /\ compilation.steps < MaxSteps /\ compilation.pending = <<>>
    /\ \E instruction \in {"Jump", "JumpIfFalse"} :
          LET j == emit_jump(compilation.c, instruction)
          IN  compilation' =
                  [Stepped("emit_jump", j.c)
                      EXCEPT !.pending = Append(@, j.offset)]
    /\ EmitterFrame

\* patch_jump, which writes through Chunk::code_mut.
Compilation_do_patch_jump ==
    /\ compilation.steps < MaxSteps /\ compilation.pending # <<>>
    /\ LET offset == compilation.pending[Len(compilation.pending)]
           jump   == Len(compilation.c.chunk.code) - offset - 2
       IN  compilation' =
               [Stepped("patch_jump", patch_jump(compilation.c, offset))
                   EXCEPT !.pending = SubSeq(@, 1, Len(@) - 1),
                          !.patched = @ \cup {<<offset, jump>>}]
    /\ EmitterFrame

Compilation_do_emit_loop ==
    /\ compilation.steps < MaxSteps
    /\ \E loop_start \in {0, Len(compilation.c.chunk.code)} :
          LET offset == Len(compilation.c.chunk.code) + 1 - loop_start + 2
              c1     == emit_loop(compilation.c, loop_start)
          IN  compilation' =
                  [Stepped("emit_loop", c1)
                      EXCEPT !.patched =
                                 @ \cup {<<Len(c1.chunk.code) - 2, offset>>}]
    /\ EmitterFrame

Compilation_do_begin_scope ==
    /\ compilation.steps < MaxSteps
    /\ compilation' = Stepped("begin_scope", begin_scope(compilation.c))
    /\ EmitterFrame

\* var_declaration without an initializer, the name being the previous
\* token: declare_variable, then define_variable.
Compilation_do_declare ==
    /\ compilation.steps < MaxSteps
    /\ \E name \in LocalNames :
          compilation' =
              Stepped("declare",
                      define_variable(
                          declare_variable(
                              [compilation.c EXCEPT
                                  !.previous = Token_new("Identifier", name, 1)]),
                          0))
    /\ EmitterFrame

Compilation_do_end_scope ==
    /\ compilation.steps < MaxSteps /\ compilation.c.scope_depth > 0
    /\ compilation' = Stepped("end_scope", end_scope(compilation.c))
    /\ EmitterFrame

EmitterNext ==
    \/ Compilation_do_emit_bytes \/ Compilation_do_add_constant
    \/ Compilation_do_emit_jump \/ Compilation_do_patch_jump
    \/ Compilation_do_emit_loop
    \/ Compilation_do_begin_scope \/ Compilation_do_declare
    \/ Compilation_do_end_scope

EmitterSpec == Init /\ [][EmitterNext]_vars

(***************************************************************************)
(* The loops of the compiler, one iteration at a time: the declaration     *)
(* loops of execute and block, the loop of synchronize and the infix loop  *)
(* of parse_precedence for the expression of an expression statement.      *)
(* compilation.op is the place the compilation has come to: "execute" and  *)
(* "block" are the heads of the two declaration loops, "infix" the head of *)
(* the infix loop, "expression" the return of parse_precedence without a   *)
(* prefix rule, "synchronize" the head of the loop of synchronize,         *)
(* "returned" the return of execute and "panicked" a Rust panic.           *)
(***************************************************************************)
\* Files for the loops, with and without errors.
Descents ==
    {"", ";", "}", "1 + 2 * 3;", "a = b + c == d;", "print 1 print 2;",
     "1 + ; 2;", "{ var a = 1; print a; }", "{ 1 +; var a; }", "{ 1; {",
     "{ } }", "1 + @ 2; print 3;", "( ( (", "var; var a", "if (", "- - 1",
     "{ { 1 2 } 3 }", "a and b or !c;", "while (a b) c; 1;", "for (;;",
     "\"a", "1 = 2;", "7x.0;", "{ 1x.5; }", "1 + 2x.5;"}

\* The tokens that the scanner has not delivered yet, Eof not counted.
RECURSIVE TokensLeft(_)
TokensLeft(s) ==
    LET r == scan_token(s)
    IN  IF r.tok.ty = "Eof" THEN 0 ELSE 1 + TokensLeft(r.s)

\* The tokens that the compilation has not consumed yet.
Remaining(c) ==
    IF c.current.ty = "Eof" THEN 0 ELSE 1 + TokensLeft(c.scanner)

\* The head of the declaration loop that the compilation is in.
LoopHead(c) ==
    IF c.panic THEN "panicked"
    ELSE IF c.scope_depth > 0 THEN "block" ELSE "execute"

\* declaration has returned to the loop, or a panic unwinds.
Landed(c) == Stepped(LoopHead(c), c)

\* The end of declaration: in panic mode synchronize is entered, and clears
\* the mode before its loop.
Declared(c) ==
    IF ~c.panic /\ c.panic_mode
    THEN Stepped("synchronize", [c EXCEPT !.panic_mode = FALSE])
    ELSE Landed(c)

\* The condition of the declaration loop at the head op.
MoreDeclarations(op, c) ==
    IF op = "execute" THEN ~Parser_check(c, "Eof")
    ELSE ~Parser_check(c, "RightBrace") /\ ~Parser_check(c, "Eof")

\* The condition of the infix loop of parse_precedence(Assignment).
MoreInfix(c) == Precedence_Assignment <= get_rule(c.current.ty).precedence

\* Compilation::new for one of the files.
Compilation_do_new ==
    /\ compilation.op = "new" /\ compilation.steps = 0
    /\ \E source \in Descents :
          compilation' =
              Stepped("execute", Compilation_new(compilation.c.vm, source))
    /\ EmitterFrame

\* One iteration of the declaration loop of execute or of block.
Compilation_do_declaration ==
    /\ compilation.op \in {"execute", "block"}
    /\ MoreDeclarations(compilation.op, compilation.c)
    /\ compilation' = Landed(call("declaration", compilation.c, 0))
    /\ EmitterFrame

\* declaration and statement up to the loop of block, at the top level.
Compilation_do_block ==
    /\ compilation.op = "execute"
    /\ Parser_check(compilation.c, "LeftBrace")
    /\ compilation' =
           Stepped("block",
                   begin_scope(call("Parser_advance", compilation.c, 0)))
    /\ EmitterFrame

\* The end of the loop of block: block, statement and declaration return.
Compilation_do_end_block ==
    /\ compilation.op = "block"
    /\ ~MoreDeclarations("block", compilation.c)
    /\ compilation' =
           Declared(end_scope(consume(compilation.c, "RightBrace",
                                      "Expect '}' after block.")))
    /\ EmitterFrame

\* declaration, statement, expression_statement and parse_precedence up to
\* its infix loop.
Compilation_do_prefix ==
    /\ compilation.op \in {"execute", "block"}
    /\ MoreDeclarations(compilation.op, compilation.c)
    /\ compilation.c.current.ty \notin
           {"Var", "Print", "If", "While", "For", "LeftBrace"}
    /\ compilation' =
           Stepped(IF get_rule(compilation.c.current.ty).prefix = "none"
                   THEN "expression" ELSE "infix",
                   call("parse_prefix", compilation.c, TRUE))
    /\ EmitterFrame

\* One iteration of the infix loop.
Compilation_do_infix ==
    /\ compilation.op = "infix"
    /\ ~compilation.c.panic
    /\ MoreInfix(compilation.c)
    /\ compilation' =
           Stepped("infix", call("infix_body", compilation.c, TRUE))
    /\ EmitterFrame

\* parse_precedence has returned: the rest of expression_statement and of
\* declaration.  A panic unwinds.
Compilation_do_end_expression ==
    /\ \/ compilation.op = "expression"
       \/ compilation.op = "infix"
          /\ (compilation.c.panic \/ ~MoreInfix(compilation.c))
    /\ compilation' =
           IF compilation.c.panic THEN Stepped("panicked", compilation.c)
           ELSE Declared(emit_bytes(consume(compilation.c, "Semicolon",
                                            "Expect ';' after expression."),
                                    <<Opcode("Pop")>>))
    /\ EmitterFrame

\* One pass through the loop of synchronize: it returns, or it advances.
Compilation_do_synchronize ==
    /\ compilation.op = "synchronize"
    /\ compilation' =
           IF \/ compilation.c.current.ty = "Eof"
              \/ compilation.c.previous.ty = "Semicolon"
              \/ compilation.c.current.ty \in SyncTokens
           THEN Stepped(LoopHead(compilation.c), compilation.c)
           ELSE Stepped("synchronize",
                        call("Parser_advance", compilation.c, 0))
    /\ EmitterFrame

\* The end of the loop of execute: matches(Eof), end, consume(Eof).
Compilation_do_end ==
    /\ compilation.op = "execute"
    /\ ~MoreDeclarations("execute", compilation.c)
    /\ compilation' =
           Stepped("returned",
                   consume(Compilation_end(
                               call("Parser_advance", compilation.c, 0)),
                           "Eof", "Expect end of expression."))
    /\ EmitterFrame

DescentNext ==
    \/ Compilation_do_new \/ Compilation_do_declaration
    \/ Compilation_do_block \/ Compilation_do_end_block
    \/ Compilation_do_prefix \/ Compilation_do_infix
    \/ Compilation_do_end_expression \/ Compilation_do_synchronize
    \/ Compilation_do_end

DescentSpec == Init /\ [][DescentNext]_vars

(***************************************************************************)
(* Properties of the runtime contract.                                     *)
(***************************************************************************)
\* The instruction executed last, and the content of its name operand.
LastOp == Opcode_try_from(chunk.code[last_ip + 1])

LastName == heap[chunk.constants[chunk.code[last_ip + 2] + 1].v].data.inner

Contents(table) == {heap[k].data.inner : k \in DOMAIN table}

Cells == 1..Len(heap)

\* The cells met by following next from obj, fuel steps at most.
RECURSIVE Chain(_, _, _)
Chain(h, obj, fuel) ==
    IF obj = None \/ fuel = 0 THEN <<>>
    ELSE <<obj>> \o Chain(h, Object_next(h[obj]), fuel - 1)

Range(seq) == {seq[i] : i \in DOMAIN seq}

\* A binary arithmetic or comparison arm whose operands are not two numbers
\* (for Add: nor two strings).
BinaryOperandFailure ==
    /\ pc = "running" /\ Fetched \in BinaryOps /\ ~Panics
    /\ ~(is_double(VM_peek(1)) /\ is_double(VM_peek(0)))
    /\ ~(Fetched = "Add" /\ is_string(VM_peek(1)) /\ is_string(VM_peek(0)))

\* C1: a binary operator applied to operands that are not numbers reports the
\* error and halts the run: the step that reports it returns Err(Runtime), so
\* no further instruction is executed.
BinaryFailureHalts ==
    [][BinaryOperandFailure =>
          /\ stderr'[Len(stderr') - 1] = "Operands must be numbers."
          /\ pc' = "returned"
          /\ result' = "Runtime"]_vars

\* C2: the N of "[line N] in script" is the source line that the line table
\* holds for the failing instruction, and the stack is empty when the error
\* has been reported.
RuntimeErrorNamesLine ==
    [][(pc = "running" /\ Len(stderr') = Len(stderr) + 2) =>
          /\ stderr'[Len(stderr')] =
                "[line " \o ToString(chunk.lines[ip + 1]) \o "] in script"
          /\ stack' = <<>>]_vars

\* GetGlobal or SetGlobal of a name that has no entry in globals.
UndefinedGlobalAccess ==
    /\ pc = "running" /\ Fetched \in {"GetGlobal", "SetGlobal"} /\ ~Panics
    /\ heap[read_constant.v].data.inner \notin Contents(globals)

\* C3: reading or assigning a global that was never defined returns
\* Err(Runtime) with the message "Undefined variable '<name>'" and leaves the
\* globals as they were; a failed assignment creates no entry.
UndefinedGlobalFails ==
    [][UndefinedGlobalAccess =>
          /\ pc' = "returned"
          /\ result' = "Runtime"
          /\ globals' = globals
          /\ Len(stderr') = Len(stderr) + 2
          /\ stderr'[Len(stderr) + 1] =
                "Undefined variable '"
                \o heap[read_constant.v].data.inner \o "'"]_vars

\* C3 happens: an assignment to the undefined b has failed in a session that
\* had defined another global, and b has no entry.
UndefinedAssignmentFailed ==
    /\ pc = "returned" /\ result = "Runtime"
    /\ last_ip + 2 <= Len(chunk.code)
    /\ LastOp = "SetGlobal"
    /\ LastName = "b"
    /\ globals # <<>>
    /\ "b" \notin Contents(globals)

\* C4: an interpret call that ends in a compile or runtime error does not end
\* the REPL session: the loop goes on to prompt for the next line.
ReplSurvivesError ==
    [][(driver = "repl" /\ pc = "returned" /\ result \in {"Compile", "Runtime"})
          => pc' = "idle"]_vars

\* GetGlobal of a name that DefineGlobal or SetGlobal gave a value, in this
\* call or an earlier one.
ReadsAssignedGlobal ==
    /\ Fetch("GetGlobal")
    /\ heap[read_constant.v].data.inner \in DOMAIN assigned

\* C5: globals persist across interpret calls on the same VM: a read finds
\* the value the name received last, whatever the calls in between did and
\* whether they succeeded or failed.
GlobalsPersist ==
    [][ReadsAssignedGlobal =>
          /\ pc' = "running"
          /\ stack' =
                Append(stack, assigned[heap[read_constant.v].data.inner].value)]_vars

\* C5 happens: the third call has just read a global that the first call
\* assigned, and the second call failed.
ReadAfterFailedCall ==
    /\ pc = "running" /\ calls = 3
    /\ result \in {"Compile", "Runtime"}
    /\ ip = last_ip + 2 /\ ip <= Len(chunk.code)
    /\ LastOp = "GetGlobal"
    /\ LastName \in DOMAIN assigned
    /\ assigned[LastName].call = 1
    /\ stack # <<>>
    /\ stack[Len(stack)] = assigned[LastName].value

\* C6: a call whose compilation reports an error returns Err(Compile) without
\* executing an instruction: the stack and the globals are as before the call
\* and nothing was written to standard output.
CompileErrorRunsNothing ==
    [][(calls' = calls + 1 /\ stderr' # stderr) =>
          /\ pc' = "returned"
          /\ result' = "Compile"
          /\ stack' = stack
          /\ globals' = globals
          /\ stdout' = stdout]_vars

\* C6 happens: a call of a session that holds globals and has printed has
\* returned Err(Compile).
CompileErrorAfterWork ==
    /\ pc = "returned" /\ result = "Compile"
    /\ calls >= 2
    /\ globals # <<>>
    /\ stdout # <<>>

\* C7: execute succeeds exactly when no compile error was reported: an error
\* early in the source fails the compilation even when the statements after
\* it compile cleanly.
ExecuteOkIffNoError ==
    [][(calls' = calls + 1 /\ pc' \in {"running", "returned"}) =>
          /\ (pc' = "running") <=> (stderr' = stderr)
          /\ (pc' = "returned") => (result' = "Compile")]_vars

\* C7 happens: "var = 1; var b = 2;" reported its one error in the first
\* statement, compiled the second (its name b was interned) and failed.
EarlyErrorFailed ==
    /\ pc = "returned" /\ result = "Compile"
    /\ calls = 1
    /\ Len(stderr) = 1
    /\ \E o \in Cells : heap[o].data.inner = "b"

\* No two cells hold the same content, and every cell is a key of strings.
OneCellPerContent ==
    /\ DOMAIN strings = Cells
    /\ \A a, b \in Cells : heap[a].data.inner = heap[b].data.inner => a = b

\* A request for the content of any cell returns that cell and changes
\* neither the list of objects nor the table.
RequestsFindCells ==
    \A o \in Cells :
        LET vm == [object |-> object, heap |-> heap, strings |-> strings]
            r  == allocate_string(vm, heap[o].data.inner)
        IN  r.obj = o /\ r.vm = vm

\* C8: interning is idempotent: equal contents share one handle and the
\* strings table has exactly one entry per distinct content, at every moment;
\* and when a call has returned, a request for a content that is interned
\* returns the handle it has.
InternedOnce ==
    /\ OneCellPerContent
    /\ pc = "returned" => RequestsFindCells

\* C8 happens: the compiler asked twice for the same name and the chunk holds
\* the one handle in two constants.
SameHandleTwice ==
    \E i, j \in DOMAIN chunk.constants :
        /\ i < j
        /\ is_string(chunk.constants[i])
        /\ chunk.constants[i] = chunk.constants[j]

\* C9: until the VM is dropped, the list that starts at object is acyclic and
\* holds every allocated object exactly once.
ObjectsListed ==
    pc \notin {"dropping", "exited"} =>
        LET listed == Chain(heap, object, Len(heap) + 1)
        IN  /\ Len(listed) = Len(heap)
            /\ Range(listed) = Cells

\* C9 happens: three objects are allocated and the run goes on.
ThreeObjectsListed == pc = "running" /\ Len(heap) >= 3

Unfreed == {o \in Cells : heap[o].frees = 0}

DropFreesOnce ==
    /\ ~uaf
    /\ \A o \in Cells : heap[o].frees <= 1
    /\ pc = "dropping" =>
          LET rest == Chain(heap, maybe_obj, Len(heap) + 1)
          IN  Len(rest) = Cardinality(Unfreed) /\ Range(rest) = Unfreed
    /\ (pc = "exited" /\ exit_code \in {0, 101}) => Unfreed = {}

\* C10: dropping the VM frees every object exactly once: the loop reads a
\* cell's next before it frees the cell, visits each cell once, and ends.
DropFreesEachOnce == []DropFreesOnce /\ ((pc = "dropping") ~> (pc = "exited"))

\* C10 happens: a VM with at least two objects was dropped by a process that
\* ended normally, and every cell was freed once.
DroppedAll ==
    /\ pc = "exited" /\ exit_code = 0
    /\ Len(heap) >= 2
    /\ \A o \in Cells : heap[o].frees = 1

(***************************************************************************)
(* Properties of the chunks the compiler emits, and of scopes and loops.   *)
(***************************************************************************)
\* A long file that is short enough to be written out compiles to what the
\* compiler makes of its text.
LongFileAsText ==
    (calls > 0 /\ script \in LongFiles /\ script.count <= 2) =>
        LET r == call("compile",
                      [panic |-> FALSE,
                       vm |-> [object |-> None, heap |-> <<>>,
                               strings |-> <<>>]],
                      LongText(script))
        IN  /\ r.ok <=> pc = "running"
            /\ r.ok => chunk = r.c.chunk
            /\ heap = r.c.vm.heap
            /\ Len(stderr) = Len(r.c.diag)

\* The number of operand bytes that follow an opcode.
OperandBytes(op) ==
    CASE op \in {"Constant", "GetLocal", "SetLocal", "GetGlobal",
                 "DefineGlobal", "SetGlobal"} -> 1
      [] op \in {"Jump", "JumpIfFalse", "Loop"} -> 2
      [] OTHER -> 0

\* The offsets at which the instructions of code start, from offset i on.
RECURSIVE InstructionStarts(_, _)
InstructionStarts(code, i) ==
    IF i >= Len(code) THEN {}
    ELSE {i} \cup InstructionStarts(
                      code, i + 1 + OperandBytes(Opcode_try_from(code[i + 1])))

OpAt(i) == Opcode_try_from(chunk.code[i + 1])

ConstantUses ==
    {i \in InstructionStarts(chunk.code, 0) :
        OpAt(i) \in {"Constant", "GetGlobal", "SetGlobal", "DefineGlobal"}}

JumpUses ==
    {i \in InstructionStarts(chunk.code, 0) :
        OpAt(i) \in {"Jump", "JumpIfFalse", "Loop"}}

\* The constant index that the instruction at offset i carries.
ConstantIndex(i) == chunk.code[i + 2]

\* The offset at which the jump instruction at offset i goes on.
JumpTarget(i) ==
    LET offset == (chunk.code[i + 2] * 256) + chunk.code[i + 3]
    IN  IF OpAt(i) = "Loop" THEN i + 3 - offset ELSE i + 3 + offset

EndsWith(str, suffix) ==
    /\ Len(str) >= Len(suffix)
    /\ SubSeq(str, Len(str) - Len(suffix) + 1, Len(str)) = suffix

\* Standard error holds a diagnostic with this message.
Reported(err, message) ==
    \E i \in DOMAIN err : EndsWith(err[i], ": " \o message)

\* C11: in a chunk that a successful compile produced, the operand of every
\* Constant, GetGlobal, SetGlobal and DefineGlobal is an index below the
\* length of the constant table and addresses the value added for that
\* instruction: every constant belongs to exactly one instruction, and the
\* operand of a global instruction is the string that names the global.
ConstantOperandsAddressed ==
    pc = "running" =>
        /\ \A i \in ConstantUses :
              /\ i + 2 <= Len(chunk.code)
              /\ ConstantIndex(i) < Len(chunk.constants)
              /\ OpAt(i) # "Constant" =>
                    is_string(chunk.constants[ConstantIndex(i) + 1])
        /\ \A i, j \in ConstantUses :
              ConstantIndex(i) = ConstantIndex(j) => i = j
        /\ Cardinality(ConstantUses) = Len(chunk.constants)

\* C11 happens: a chunk with a Constant, a DefineGlobal, a GetGlobal and a
\* SetGlobal instruction is being run.
AllConstantUsesEmitted ==
    /\ pc = "running"
    /\ \A op \in {"Constant", "GetGlobal", "SetGlobal", "DefineGlobal"} :
          \E i \in ConstantUses : OpAt(i) = op

\* C12: in a chunk that a successful compile produced, the target of every
\* Jump, JumpIfFalse and Loop (the offset after its two operand bytes, plus
\* the operand for Jump and JumpIfFalse, minus it for Loop) lies in
\* [0, |code|].
JumpTargetsInCode ==
    pc = "running" =>
        \A i \in JumpUses :
            /\ i + 3 <= Len(chunk.code)
            /\ JumpTarget(i) >= 0
            /\ JumpTarget(i) <= Len(chunk.code)

\* C12 happens: a chunk with a Jump, a JumpIfFalse and a Loop is being run.
AllJumpsEmitted ==
    /\ pc = "running"
    /\ \A op \in {"Jump", "JumpIfFalse", "Loop"} :
          \E i \in JumpUses : OpAt(i) = op

(***************************************************************************)
(* Properties of the operators.                                            *)
(***************************************************************************)
Concatenated == "var a = \"foo\"; var b = \"bar\"; print a + b;"

\* C21: Add on two strings pops both operands and pushes the interned string
\* whose content is the left operand followed by the right one; the handle
\* pushed is the one of every interned string with that content, so the sum
\* of "foo" and "bar" prints foobar.
AddConcatenates ==
    /\ [][(Fetch("Add") /\ is_string(VM_peek(1)) /\ is_string(VM_peek(0))) =>
            LET content == heap[VM_peek(1).v].data.inner
                              \o heap[VM_peek(0).v].data.inner
                top     == stack'[Len(stack')]
            IN  /\ pc' = "running" /\ stderr' = stderr
                /\ Len(stack') = Len(stack) - 1
                /\ SubSeq(stack', 1, Len(stack') - 1)
                      = SubSeq(stack, 1, Len(stack) - 2)
                /\ top.k = "String"
                /\ top.v \in DOMAIN strings'
                /\ heap'[top.v].data.inner = content
                /\ \A k \in DOMAIN strings' :
                      heap'[k].data.inner = content => k = top.v
                /\ \A k \in DOMAIN strings :
                      k \in DOMAIN strings' /\ heap'[k] = heap[k]]_vars
    /\ []((script = Concatenated /\ pc = "returned") =>
             (result = "Ok" /\ stdout = <<"foobar\n">>))

\* C21 happens: the sum of "fo" and "o" is the cell of the constant "foo".
AddFoundInterned ==
    /\ script = "print \"fo\" + \"o\" == \"foo\";"
    /\ pc = "running"
    /\ LastOp = "Add"
    /\ heap[stack[Len(stack)].v].data.inner = "foo"
    /\ Len(heap) = 3

\* Equality of two values as the language defines it: the same kind and the
\* same payload, numbers by IEEE == (NaN is equal to nothing), strings by
\* handle.
SameValue(a, b) ==
    /\ a.k = b.k
    /\ CASE a.k = "Nil" -> TRUE
         [] a.k = "Bool" -> a.v = b.v
         [] a.k = "Double" ->
               IF a.d = 0 \/ b.d = 0 THEN a = b /\ a.v # 0
               ELSE a.v * b.d = b.v * a.d
         [] a.k = "String" -> a.v = b.v

\* What the operand texts denote: equal texts denote equal values, but for
\* 0 / 0, and the sum of "a" and "" is "a".
SameOperand(x, y) ==
    /\ "0 / 0" \notin {x, y}
    /\ \/ x = y
       \/ {x, y} = {"\"a\"", "\"a\" + \"\""}

\* C22: Equal pops two values and pushes true exactly when both have the
\* same kind and equal payload: Nil equals Nil, booleans and numbers compare
\* by value, two strings are equal iff their content is equal, which is iff
\* their handles are identical, and values of different kinds are never
\* equal; the order of the operands does not matter.
EqualIsStructural ==
    /\ [][Fetch("Equal") =>
            LET a == VM_peek(0)
                b == VM_peek(1)
            IN  /\ pc' = "running"
                /\ stack' = Append(SubSeq(stack, 1, Len(stack) - 2),
                                   BoolValue(SameValue(a, b)))
                /\ SameValue(a, b) <=> SameValue(b, a)
                /\ (is_string(a) /\ is_string(b)) =>
                      (a.v = b.v
                       <=> heap[a.v].data.inner = heap[b.v].data.inner)]_vars
    /\ []((pc = "returned" /\ driver = "file") =>
             \A x, y \in EqualOperands :
                script = EqualProgram(x, y) =>
                   stdout = <<IF SameOperand(x, y) THEN "true\n"
                              ELSE "false\n">>)

\* C22 happens: a string made by Add was found equal to a constant.
EqualOnStrings ==
    /\ script = EqualProgram("\"a\" + \"\"", "\"a\"")
    /\ pc = "running"
    /\ LastOp = "Equal"
    /\ stack = <<BoolValue(TRUE)>>

\* The values that count as false: nil and the boolean false.
Falsy(val) == val.k = "Nil" \/ (val.k = "Bool" /\ val.v = 0)

\* C23: Not pushes true exactly when the value it pops is nil or false;
\* JumpIfFalse branches exactly when the top of the stack is nil or false;
\* every number, 0 included, and every string, the empty one included, is
\* truthy; Jump and JumpIfFalse leave the stack as it is.
TruthinessUniform ==
    /\ [][/\ Fetch("Not") =>
               stack' = Append(SubSeq(stack, 1, Len(stack) - 1),
                               BoolValue(Falsy(VM_peek(0))))
          /\ Fetch("JumpIfFalse") =>
               /\ stack' = stack
               /\ ip' = IF Falsy(VM_peek(0)) THEN JumpTarget(ip) ELSE ip + 3
          /\ Fetch("Jump") =>
               stack' = stack /\ ip' = JumpTarget(ip)]_vars
    /\ []((pc = "returned" /\ driver = "file") =>
             \A x \in TruthOperands :
                /\ script = NotProgram(x) =>
                      stdout = <<IF x \in {"nil", "false"} THEN "true\n"
                                 ELSE "false\n">>
                /\ script = IfProgram(x) =>
                      stdout = <<IF x \in {"nil", "false"} THEN "2\n"
                                 ELSE "1\n">>)

\* C23 happens: JumpIfFalse met the number 0 and did not branch.
ZeroIsTruthy ==
    /\ script = IfProgram("0")
    /\ pc = "running"
    /\ LastOp = "JumpIfFalse"
    /\ stack = <<DoubleValue(0, 1)>>
    /\ ip = last_ip + 3

\* C24: and and or short-circuit and leave one value: for and the right
\* operand is evaluated only when the left one is truthy, and the result is
\* the left value if it is falsy and the right value otherwise; for or the
\* right operand is evaluated only when the left one is falsy, and the result
\* is the left value if it is truthy and the right value otherwise.  The
\* right operand of the files assigns to a, which is 0 before.
ShortCircuit ==
    (pc = "returned" /\ driver = "file") =>
        /\ \A x \in LeftOperands, y \in RightOperands :
              /\ script = AndProgram(x, y) =>
                    /\ result = "Ok" /\ stack = <<>>
                    /\ stdout = IF x \in {"nil", "false"}
                                THEN <<x \o "\n", "0\n">>
                                ELSE <<y \o "\n", y \o "\n">>
              /\ script = OrProgram(x, y) =>
                    /\ result = "Ok" /\ stack = <<>>
                    /\ stdout = IF x \in {"nil", "false"}
                                THEN <<y \o "\n", y \o "\n">>
                                ELSE <<x \o "\n", "0\n">>
        /\ script = "if (1 < 2 and 2 < 3) print \"ok\"; else print \"no\";" =>
              stdout = <<"ok\n">>

\* C24 happens: or with a truthy left operand has skipped the assignment.
OrSkippedRight ==
    /\ script = OrProgram("0", "1")
    /\ pc = "returned"
    /\ stdout = <<"0\n", "0\n">>

\* C25: binary operators are compiled with the precedences Equality <
\* Comparison < Term < Factor < Unary and associate to the left: the code for
\* 1 + 2 * 3 multiplies first and prints 7, and a - b - c is (a - b) - c for
\* all operands.
PrecedenceAndAssociativity ==
    /\ (pc = "returned" /\ driver = "file") =>
          /\ \A p \in Precedences :
                script = p[1] => (result = "Ok" /\ stdout = <<p[2]>>)
          /\ \A a \in Minuends, b \in Minuends, c \in Minuends :
                script = SubtractProgram(a, b, c) =>
                   /\ result = "Ok"
                   /\ stdout = <<ToString((a - b) - c) \o "\n">>
    /\ (pc = "running" /\ script = "print 1 + 2 * 3;") =>
          chunk.code = <<Opcode("Constant"), 0, Opcode("Constant"), 1,
                         Opcode("Constant"), 2, Opcode("Multiply"),
                         Opcode("Add"), Opcode("Print"), Opcode("Return")>>

\* C25 happens: 3 - 2 - 1 has printed 0.
SubtractedFromLeft ==
    /\ script = SubtractProgram(3, 2, 1)
    /\ pc = "returned"
    /\ stdout = <<"0\n">>

\* C26: when = follows an expression that is no assignable variable, the
\* compiler reports "Invalid assignment target" and the compile fails.
InvalidTargetReported ==
    [][(calls' = calls + 1 /\ script' \in BadTargets) =>
          /\ pc' = "returned" /\ result' = "Compile"
          /\ \/ Reported(stderr', "Invalid assignment target")
             \/ Reported(stderr', "Invalid assignment target.")]_vars

\* The VM reported a runtime error: runtime_error wrote its trace line.
RuntimeErrorRaised ==
    \E i \in DOMAIN stderr : EndsWith(stderr[i], "] in script")

\* C30: with more than one argument main exits with 64; running a file, the
\* process exits with 0 when intepret returned Ok, with 65 when it returned
\* Err(Compile) and with 70 when it returned Err(Runtime); a file that meets
\* a runtime error, as print -"a"; does ("Operand must be a number."), exits
\* with 70, and one with a compile error with 65.
ExitStatus ==
    /\ [][(pc = "start" /\ driver' = "none") =>
             (pc' = "exited" /\ exit_code' = 64)]_vars
    /\ [][(pc = "returned" /\ driver = "file") =>
             /\ result = "Ok" => exit_code' = 0
             /\ result = "Compile" => (pc' = "exited" /\ exit_code' = 65)
             /\ result = "Runtime" => (pc' = "exited" /\ exit_code' = 70)]_vars
    /\ []((driver = "file" /\ script = "print -\"a\";" /\ exit_code # -1) =>
             /\ exit_code = 70
             /\ stderr[1] = "Operand must be a number.")
    /\ []((driver = "file" /\ exit_code # -1) =>
             /\ RuntimeErrorRaised => exit_code = 70
             /\ Reported(stderr, "Expect expression.") => exit_code = 65)

(***************************************************************************)
(* Properties of the parser and the scanner on their own.                  *)
(***************************************************************************)
\* The step is not the synchronize that declaration calls in panic mode.
NotSynchronize == parser' # synchronize(parser)

\* C27: panic mode suppresses cascading errors: while panic_mode is set, a
\* call of error or error_at_current leaves the parser as it is and writes no
\* diagnostic, and until the next synchronize no step writes one or changes
\* had_error or panic_mode; a step writes at most one diagnostic, and only
\* out of panic mode; so at most one diagnostic is written per stretch
\* between two synchronizations.
PanicModeSuppresses ==
    /\ [][parser.panic_mode =>
            /\ \A message \in Messages :
                  /\ error_at_current(parser, message) = parser
                  /\ parser.previous.ty # "Uninit" =>
                        Parser_error(parser, message) = parser
            /\ NotSynchronize =>
                  /\ parser'.diag = parser.diag
                  /\ parser'.had_error = parser.had_error
                  /\ parser'.panic_mode]_vars
    /\ [][/\ Len(parser'.diag) <= Len(parser.diag) + 1
          /\ Len(parser'.diag) > Len(parser.diag) =>
                (~parser.panic_mode \/ ~NotSynchronize) /\ parser'.panic_mode
                /\ parser'.had_error]_vars
    /\ [](Len(parser.diag) - stretch.base <= 1)

\* Two errors were raised since the last synchronize and one was reported.
SecondErrorSuppressed ==
    /\ stretch.base = 1 /\ stretch.errors = 2
    /\ parser.panic_mode /\ Len(parser.diag) = 2

\* The messages that the scanner puts into its Error tokens.
ScannerMessages == {"Unexpected character.", "Unterminated string."}

\* The text that a diagnostic about this token is to have.
DiagnosticForm(d) ==
    "[line " \o ToString(d.line) \o "] Error"
    \o (IF d.ty = "Eof" THEN " at end"
        ELSE IF d.ty = "Error" THEN ""
        ELSE " at '" \o d.lexeme \o "'")
    \o ": " \o d.message

\* C31: a diagnostic reads "[line N] Error at '<lexeme>': <message>" for an
\* ordinary token, "[line N] Error at end: <message>" for Eof, and
\* "[line N] Error: <message>", without an at clause, when it reports an
\* Error token of the scanner.
DiagnosticFormat ==
    \A i \in DOMAIN parser.diag :
        LET d == parser.diag[i]
        IN  d.ty # "Uninit" =>
              /\ format_diagnostic(d) = DiagnosticForm(d)
              /\ d.message \in ScannerMessages =>
                    format_diagnostic(d)
                        = "[line " \o ToString(d.line) \o "] Error: "
                          \o d.message

\* synchronize stopped at the boundary of a statement.
AtBoundary(c) ==
    \/ c.previous.ty = "Semicolon"
    \/ c.current.ty \in SyncTokens
    \/ c.current.ty = "Eof"

\* C35 as stated: synchronize returns at a statement boundary with
\* panic_mode false.
SynchronizeClearsPanic ==
    [][(parser.panic_mode /\ ~NotSynchronize) =>
          (AtBoundary(parser') /\ ~parser'.panic_mode)]_vars

\* C35: synchronize returns at a statement boundary; panic_mode is false
\* when it returns, and then the next error is reported, unless it skipped
\* an Error token of the scanner: then it has reported that token, as the
\* one diagnostic it wrote, and panic_mode is set again.
SynchronizeStops ==
    [][(parser.panic_mode /\ ~NotSynchronize) =>
          /\ AtBoundary(parser')
          /\ ~parser'.panic_mode =>
                /\ parser'.diag = parser.diag
                /\ \A message \in Messages :
                      error_at_current(parser', message).diag
                          = Append(parser.diag,
                                   Diagnostic(parser'.current, message))
          /\ parser'.panic_mode =>
                /\ Len(parser'.diag) = Len(parser.diag) + 1
                /\ parser'.diag[Len(parser'.diag)].message
                      \in ScannerMessages]_vars

\* synchronize skipped tokens up to a semicolon and cleared panic_mode.
SynchronizedAtSemicolon ==
    /\ stretch = [errors |-> 0, base |-> 1]
    /\ parser.scanner.source = "1 + ; var x;"
    /\ parser.previous.ty = "Semicolon" /\ parser.current.ty = "Var"
    /\ ~parser.panic_mode

\* C36: the parser reads neither current nor previous before a token was
\* stored there, also when the first token of the source is an Error token.
NoUninitializedRead == ~parser.uninit_read

\* What the scanner is to return first for these sources.
Numbers ==
    {<<"1.5", "1.5">>, <<"12.25;", "12.25">>, <<"0.5 + 2", "0.5">>,
     <<"7", "7">>, <<"1.", "1">>, <<"1.x", "1">>}

\* C28: a run of digits, optionally followed by "." and more digits, is one
\* Number token whose lexeme is the whole run ("1.5" is one token), and a "."
\* that no digit follows is not part of the number.
NumberIsOneToken ==
    [][\A n \in Numbers :
          scanner = Scanner_new(n[1]) =>
              token' = Token_new("Number", n[2], 1)]_vars

\* C29: a scan_token call that does not return Eof consumes at least one
\* character, the scanner never passes the end of the source, and once Eof
\* was returned every later call returns Eof again.
TokenStreamFinite ==
    /\ [][/\ token'.ty \notin {"Eof", "Uninit"} => scanner'.pos > scanner.pos
          /\ token.ty = "Eof" => token'.ty = "Eof"]_vars
    /\ [](scanner.pos <= Len(scanner.source))

\* Eof was returned for a source that ends in a comment behind its tokens.
EofAfterComment ==
    /\ scanner.source = "a = \"s\" // c\nb"
    /\ token.ty = "Eof" /\ scanner.pos = Len(scanner.source)

\* Digits with at most one ".", which has a digit on both sides.
WellFormedNumber(lexeme) ==
    /\ lexeme # ""
    /\ \A i \in 1..Len(lexeme) : CharAt(lexeme, i) \in Digits \cup {"."}
    /\ Cardinality({i \in 1..Len(lexeme) : CharAt(lexeme, i) = "."}) <= 1
    /\ CharAt(lexeme, 1) # "." /\ CharAt(lexeme, Len(lexeme)) # "."

\* C37: the lexeme of every Number token consists of digits with at most one
\* "." between two digits, so that its conversion to a float in number()
\* does not fail.
NumberLexemeParses ==
    token.ty = "Number" =>
        (WellFormedNumber(token.lexeme) /\ parse_f64(token.lexeme) >= 0)

\* The newline characters among the first n characters of the source.
Newlines(source, n) ==
    Cardinality({i \in 1..n : CharAt(source, i) = "\n"})

\* C39: the line of each token is 1 plus the number of newline characters
\* in the source before the end of the token, whether they stand in
\* whitespace, end a comment or stand inside a string.
TokenLineCountsNewlines ==
    token.ty # "Uninit" =>
        token.line = 1 + Newlines(scanner.source, scanner.pos)

(***************************************************************************)
(* Properties of the chunk and of the scopes.                              *)
(***************************************************************************)
\* C32: after any sequence of writes, added constants and patches the code
\* and the lines of the chunk have the same length, and every index that
\* add_constant returned is where the value added is read from the
\* constants afterwards.
CodeAndLinesAligned ==
    /\ Len(compilation.c.chunk.code) = Len(compilation.c.chunk.lines)
    /\ \A a \in compilation.added :
          /\ a[1] < Len(compilation.c.chunk.constants)
          /\ compilation.c.chunk.constants[a[1] + 1] = a[2]

\* Code was written and patched, and two constants were added.
PatchedAndAdded ==
    /\ compilation.op = "patch_jump"
    /\ compilation.c.chunk.code # <<>>
    /\ Cardinality(compilation.added) = 2

\* The locals that end_scope is to remove: those deeper than the new depth.
Deeper(c) ==
    {k \in 1..Len(c.locals) : c.locals[k].depth > c.scope_depth - 1}

\* C33: end_scope leaves no local deeper than the new scope depth, the
\* locals it removes are the last ones, it emits one Pop for each of them and
\* nothing else, and at scope depth 0 there are no locals.
EndScopePopsLocals ==
    /\ [][compilation'.op = "end_scope" =>
            LET c       == compilation.c
                c1      == compilation'.c
                removed == Len(c.locals) - Len(c1.locals)
            IN  /\ c1.scope_depth = c.scope_depth - 1
                /\ \A k \in 1..Len(c1.locals) :
                      c1.locals[k].depth <= c1.scope_depth
                /\ removed = Cardinality(Deeper(c))
                /\ c1.locals = SubSeq(c.locals, 1, Len(c1.locals))
                /\ c1.chunk.code
                      = c.chunk.code \o [i \in 1..removed |-> Opcode("Pop")]
         ]_vars
    /\ [](compilation.c.scope_depth = 0 => compilation.c.locals = <<>>)

\* An inner scope with one local ended and left the local of the outer one.
InnerScopeEnded ==
    /\ compilation.op = "end_scope"
    /\ compilation.c.scope_depth = 1
    /\ Len(compilation.c.locals) = 1
    /\ compilation.c.chunk.code = <<Opcode("Pop")>>

(***************************************************************************)
(* The limits of the compiler, on the long files.                          *)
(***************************************************************************)
\* The constants that the rest of a "numbers" file adds, the locals that
\* the rest of a "locals" file holds at once, and the bytes that the rest of
\* an "if" or "while" file adds to the block.
RestConstants(rest) ==
    CASE rest \in {"", "nil;"} -> 0
      [] rest \in {"1;", "\"s\";"} -> 1
      [] rest \in {"1; 2;", "var g = 1;"} -> 2

RestLocals(rest) ==
    CASE rest = "}" -> 0
      [] rest \in {"var a; }", "{ var a; } var b; }"} -> 1
      [] rest \in {"var a; var b; }", "{ var a; var b; } }",
                   "var a; { var b; } }"} -> 2

RestBytes(rest) ==
    CASE rest = "}" -> 0
      [] rest = "nil; }" -> 2
      [] rest \in {"!nil; }", "!nil; } else nil;"} -> 3
      [] rest \in {"nil; nil; }", "nil; nil; } else nil;"} -> 4
      [] rest = "!nil; nil; }" -> 5

\* The compiler has gone through a long file of this shape.
Compiled(shape) ==
    /\ calls > 0
    /\ pc \in {"running", "returned"}
    /\ script.shape = shape

\* C13, as stated: the 256th constant of a chunk is the compile error "Too
\* many constants in one chunk.", and a chunk that needs at most 255
\* constants compiles without that error.
ConstantLimit255 ==
    Compiled("numbers") =>
        (script.count + RestConstants(script.rest) >= 256
         <=> Reported(stderr, "Too many constants in one chunk."))

\* C13, amended: the 257th constant of a chunk is the compile error "Too
\* many constants in one chunk.", and a chunk that needs at most 256
\* constants compiles without that error.
ConstantLimit256 ==
    Compiled("numbers") =>
        /\ script.count + RestConstants(script.rest) >= 257
           <=> Reported(stderr, "Too many constants in one chunk.")
        /\ script.count + RestConstants(script.rest) >= 257
           <=> (pc = "returned" /\ result = "Compile")
        /\ pc = "running" =>
              Len(chunk.constants) = script.count + RestConstants(script.rest)

\* C13 happens: the 257th constant was refused.
Constant257Refused ==
    /\ Compiled("numbers")
    /\ script.count = 256 /\ script.rest = "\"s\";"
    /\ result = "Compile"
    /\ Len(stderr) = 1

\* C14: up to 256 locals that are declared at once are accepted, and the
\* 257th is the compile error "Too many local variables in function.".
LocalLimit256 ==
    Compiled("locals") =>
        (script.count + RestLocals(script.rest) >= 257
         <=> Reported(stderr, "Too many local variables in function."))

\* C15: a forward jump over 65535 bytes is patched without error and one
\* over 65536 bytes is the compile error "Too much code to jump over."; a
\* Loop offset above 65535 is the compile error "Loop body too large."; and
\* the 16-bit operands of a chunk that compiled hold the whole distance:
\* the jump over the block lands behind the block, and the loop goes back
\* to its condition.
JumpLimits ==
    /\ Compiled("if") =>
          LET jump == (2 * script.count) + RestBytes(script.rest) + 4
          IN  /\ jump > 65535
                 <=> Reported(stderr, "Too much code to jump over.")
              /\ jump > 65535 <=> (pc = "returned" /\ result = "Compile")
              /\ pc = "running" =>
                    /\ OpAt(1) = "JumpIfFalse"
                    /\ JumpTarget(1) = jump + 4
                    /\ OpAt(jump + 4) = "Pop" /\ OpAt(jump + 1) = "Jump"
    /\ Compiled("while") =>
          LET offset == (2 * script.count) + RestBytes(script.rest) + 8
          IN  /\ offset > 65535 <=> Reported(stderr, "Loop body too large.")
              /\ offset > 65535 <=> (pc = "returned" /\ result = "Compile")
              /\ ~Reported(stderr, "Too much code to jump over.")
              /\ pc = "running" =>
                    /\ OpAt(offset - 3) = "Loop"
                    /\ JumpTarget(offset - 3) = 0
                    /\ OpAt(1) = "JumpIfFalse"
                    /\ JumpTarget(1) = offset
                    /\ OpAt(offset) = "Pop"

\* C15 happens: a jump over exactly 65535 bytes was patched.
JumpOver65535 ==
    /\ Compiled("if")
    /\ pc = "running"
    /\ chunk.code[3] = 255 /\ chunk.code[4] = 255
    /\ Len(chunk.code) = 65535 + 4 + 2

\* Files that declare a name twice in one local scope, and files that declare
\* it again in a nested scope or at global scope.
RedeclaredInScope ==
    {"{ var a; var a; }", "{ var a; { var b; var a; var b; } }"}

RedeclaredElsewhere == {"{ var a; { var a; } }", "var a; var a;"}

\* C16: declaring a local with the name of another local of the same scope
\* is the compile error "Already a variable with this name in this scope.";
\* declaring the name again in a nested scope, or at global scope, is no
\* error.
RedeclarationInScopeRejected ==
    [][calls' = calls + 1 =>
          /\ script' \in RedeclaredInScope =>
                /\ pc' = "returned" /\ result' = "Compile"
                /\ Reported(stderr',
                            "Already a variable with this name in this scope.")
          /\ script' \in RedeclaredElsewhere =>
                pc' = "running" /\ stderr' = stderr]_vars

\* C16 happens: "{ var a; var a; }" was rejected.
RedeclarationRejected ==
    /\ script = "{ var a; var a; }"
    /\ pc = "returned" /\ result = "Compile"
    /\ Len(stderr) = 1

ReadsOwnInitializer == {"{ var x = x; }", "{ var x = 1; { var x = x; } }"}

ReadsAfterDeclaration == "{ var x = 1; { var x = 2; print x; } print x; }"

\* C17: in a local scope, reading x in the initializer of var x is the
\* compile error "Can't read local variable in its own initializer.", also
\* when an enclosing scope holds an initialized x; after the declaration,
\* reads of x find the new local.
OwnInitializerRejected ==
    /\ [][calls' = calls + 1 =>
            /\ script' \in ReadsOwnInitializer =>
                  /\ pc' = "returned" /\ result' = "Compile"
                  /\ Reported(stderr',
                       "Can't read local variable in its own initializer.")
            /\ script' = ReadsAfterDeclaration =>
                  pc' = "running" /\ stderr' = stderr]_vars
    /\ []((script = ReadsAfterDeclaration /\ pc = "returned") =>
             (result = "Ok" /\ stdout = <<"2\n", "1\n">>))

\* C17 happens: the read of x in the initializer of an inner var x was
\* rejected although the outer x is initialized.
InnerInitializerRejected ==
    /\ script = "{ var x = 1; { var x = x; } }"
    /\ pc = "returned" /\ result = "Compile"
    /\ Len(stderr) = 1

Shadowed ==
    "var a = 1; { var a = 2; { var a = 3; print a; } print a; } print a;"

ShadowedGlobal ==
    "var x = 1; { print x; var x = 2; { print x; x = 3; } print x; } print x;"

\* C18: a reference finds the innermost declaration of the name that is in
\* scope, locals first and the global otherwise, and after a block the outer
\* variable is visible again with its own value: the nested declarations of
\* a print 3, 2, 1.
InnermostDeclarationFound ==
    /\ (script = Shadowed /\ pc = "returned") =>
          (result = "Ok" /\ stdout = <<"3\n", "2\n", "1\n">>)
    /\ (script = ShadowedGlobal /\ pc = "returned") =>
          (result = "Ok" /\ stdout = <<"1\n", "2\n", "3\n", "1\n">>)

\* C18 happens: the file with the three declarations of a has run.
ShadowedPrinted ==
    /\ script = Shadowed
    /\ pc = "returned"
    /\ Len(stdout) = 3

SumLoop ==
    "var s = 0; for (var i = 1; i <= 5; i = i + 1) { s = s + i; } print s;"

CountLoop == "for (var i = 0; i < 2; i = i + 1) print i; print nil;"

\* C19: a for loop runs its initializer once, then condition, body and
\* increment in this order while the condition is truthy, and leaves at the
\* first falsy condition with the condition value and the loop variable
\* popped: the sum of 1..5 prints 15.
ForLoopRuns ==
    /\ (script = SumLoop /\ pc = "returned") =>
          (result = "Ok" /\ stdout = <<"15\n">> /\ stack = <<>>)
    /\ (script = CountLoop /\ pc = "returned") =>
          (result = "Ok" /\ stdout = <<"0\n", "1\n", "nil\n">>
           /\ stack = <<>>)

\* C19 happens: the summing loop has ended and the sum was printed.
SumPrinted ==
    /\ script = SumLoop
    /\ pc = "returned"
    /\ stdout # <<>>

\* C20: DefineGlobal binds the name to the value on top of the stack and pops
\* that value; a name that is a global already gets the new value and no
\* error is reported, so "var a; var a;" compiles and runs.
DefineGlobalBinds ==
    /\ [][Fetch("DefineGlobal") =>
            /\ pc' = "running"
            /\ stderr' = stderr
            /\ stack' = SubSeq(stack, 1, Len(stack) - 1)
            /\ \E k \in DOMAIN globals' :
                  /\ heap[k].data.inner = heap[read_constant.v].data.inner
                  /\ globals'[k] = stack[Len(stack)]
            /\ \A k \in DOMAIN globals :
                  heap[k].data.inner # heap[read_constant.v].data.inner =>
                     (k \in DOMAIN globals' /\ globals'[k] = globals[k])
            /\ Cardinality(DOMAIN globals') =
                  Cardinality(DOMAIN globals \cup
                     {k \in {read_constant.v} :
                         heap[k].data.inner \notin Contents(globals)})]_vars
    /\ []((script = "var a; var a;" /\ pc = "returned") => result = "Ok")

\* C20 happens: a was defined a second time and holds the string of the
\* second definition.
GlobalRedefined ==
    /\ script = "var a = 1; var a = \"b\"; print a;"
    /\ pc = "running"
    /\ last_ip + 2 <= Len(chunk.code)
    /\ LastOp = "DefineGlobal"
    /\ stack = <<>>
    /\ \E k \in DOMAIN globals :
          /\ heap[k].data.inner = "a"
          /\ is_string(globals[k])

(***************************************************************************)
(* Properties of the code that runs.                                       *)
(***************************************************************************)
\* The code that the compiler writes for the jump at offset i when it is to
\* land where the operand in the chunk says: for a Loop the code up to its
\* operand, for a forward jump the code up to the landing offset.
Reencoded(i) ==
    LET upto == IF OpAt(i) = "Loop" THEN i ELSE JumpTarget(i)
        c    == [chunk    |-> [chunk EXCEPT !.code = SubSeq(@, 1, upto)],
                 previous |-> Token_new("Eof", "", 1)]
    IN  IF OpAt(i) = "Loop" THEN emit_loop(c, JumpTarget(i)).chunk.code
        ELSE patch_jump(c, i + 1).chunk.code

\* C38: in a chunk that a successful compile produced every Jump,
\* JumpIfFalse and Loop lands on the first byte of an instruction, the last
\* instruction is Return, execution fetches at the first byte of an
\* instruction inside the code, and the operand bytes of each jump are the
\* bytes that patch_jump or emit_loop writes for the distance to where
\* read_u16 makes it land.
JumpsLandOnInstructions ==
    pc = "running" =>
        LET starts == InstructionStarts(chunk.code, 0)
        IN  /\ ip \in starts
            /\ Len(chunk.code) - 1 \in starts
            /\ OpAt(Len(chunk.code) - 1) = "Return"
            /\ \A i \in JumpUses :
                  /\ JumpTarget(i) \in starts
                  /\ Reencoded(i)
                        = SubSeq(chunk.code, 1,
                                 IF OpAt(i) = "Loop" THEN i + 3
                                 ELSE JumpTarget(i))

\* A Loop has just taken execution back to the condition of its loop.
LoopedBack ==
    /\ pc = "running" /\ script = CountLoop
    /\ OpAt(last_ip) = "Loop" /\ ip < last_ip

\* C34: while a successfully compiled chunk runs, the slot of every GetLocal
\* and SetLocal addresses a cell of the stack, SetLocal and SetGlobal leave
\* the stack as high as it was, with the assigned value on top, the stack is
\* empty when Return executes, and after each print statement the stack is
\* as high as the number of locals in scope there.
StackHoldsLocals ==
    /\ [](pc = "running" =>
            /\ Fetched \in {"GetLocal", "SetLocal"} => ByteAt(1) < Len(stack)
            /\ Fetched \in {"SetLocal", "SetGlobal", "Pop"} => stack # <<>>
            /\ Fetched = "Return" => stack = <<>>)
    /\ [][(pc = "running" /\ Fetched \in {"SetLocal", "SetGlobal"}
           /\ pc' = "running") =>
             /\ Len(stack') = Len(stack)
             /\ stack'[Len(stack')] = stack[Len(stack)]]_vars
    /\ [][(pc = "running" /\ Fetched = "Print" /\ pc' = "running") =>
             \A p \in Scoped :
                 script = p[1] => Len(stack') = p[2][Len(stdout') ]]_vars

\* An iteration of a loop of the compiler begins: of a declaration loop, of
\* the infix loop or of the loop of synchronize.
Iterates ==
    \/ compilation.op \in {"execute", "block"}
       /\ MoreDeclarations(compilation.op, compilation.c)
    \/ compilation.op = "infix" /\ ~compilation.c.panic
       /\ MoreInfix(compilation.c)
    \/ compilation.op = "synchronize" /\ compilation'.op = "synchronize"

\* Every iteration of the loops consumes at least one token, and no step
\* gives a token back.
IterationConsumes ==
    [][compilation.op # "new" =>
          /\ Remaining(compilation'.c) <= Remaining(compilation.c)
          /\ Iterates => Remaining(compilation'.c) < Remaining(compilation.c)]_vars

\* The steps of the loops end where execute ends.
DescentAsExecute ==
    compilation.op = "returned" =>
        compilation.c = call("compile", Compiling.c,
                             compilation.c.scanner.source).c

\* C40: compilation terminates for every finite source: each iteration of
\* the declaration loops, of synchronize and of the infix loop consumes at
\* least one token or stops at Eof, and execute returns.
CompilationTerminates ==
    /\ IterationConsumes
    /\ [](compilation.op # "panicked")

=============================================================================
